---- MODULE Spec2Model ----
(***************************************************************************)
(* A model of the retrieval pipeline of rag-voice-agent:                   *)
(*   - VectorService (backend/src/rag/vector.service.ts): the operations   *)
(*     on the Qdrant collection and the retry loop executeWithRetry;       *)
(*   - LLMService (backend/src/rag/llm.service.ts): generateAnswer and     *)
(*     buildContext and optimizeContextForTokenLimit;                      *)
(*   - RagService: processTextQuery, processVoiceQuery and the query log;  *)
(*     uploadDocumentsBatch;                                               *)
(*   - TextChunkingService and TextPreprocessingService;                   *)
(*   - EmbeddingService: generateEmbeddings and its sub-batches;           *)
(*   - AdminService and DocumentsController: upload, delete and reindex    *)
(*     over the document store and the vector collection, one at a time    *)
(*     and interleaved at their awaits.                                    *)
(* Strings of the program are TLA+ strings (Len, \o and SubSeq act on      *)
(* them as on the program's strings); a number that the program reads     *)
(* through `value || fallback` is 0 when it is unset.                      *)
(***************************************************************************)
EXTENDS Integers, Sequences, FiniteSets, TLC

(***************************************************************************)
(* Bounds of the model.                                                    *)
(***************************************************************************)
\* the configured vectorDb.maxRetries ranges over 0 (unset) .. MaxRetriesCfg
MaxRetriesCfg == 4
\* the store's calls 1..MaxStoreCalls may be planned to fail
MaxStoreCalls == 4
\* a batch holds at most MaxBatchDocs documents
MaxBatchDocs == 3
\* buildContext is given at most MaxContextDocs documents
MaxContextDocs == 2
\* preprocess is given texts of at most MaxTextLen characters
MaxTextLen == 5
\* generateEmbeddings is given up to one text more than MaxSubBatches full batches
MaxSubBatches == 2
\* the document store creates at most MaxAdminDocs documents
\* fixedSizeChunking's loop is followed for at most MaxLoopPasses chunks, and
\* down to the index -MaxLoopPasses; a loop with a positive step ends before
\* either, a loop with another step goes on beyond them in the program
MaxLoopPasses == 33
\* uploadDocumentsBatch is given at most MaxUploadDocs documents
MaxUploadDocs == 3
MaxAdminDocs == 2

(***************************************************************************)
(* Constants of the program.                                               *)
(***************************************************************************)
DefaultMaxRetries == 3
DefaultRetryDelay == 1000
DefaultVectorSize == 1536
DefaultBatchSize == 100

\* `configured || fallback` on numbers: 0 and undefined both give the fallback
OrDefault(configured, fallback) == IF configured = 0 THEN fallback ELSE configured

RECURSIVE Pow(_, _)
\* Math.pow(base, e) for a natural exponent
Pow(base, e) == IF e = 0 THEN 1 ELSE base * Pow(base, e - 1)

Min(a, b) == IF a < b THEN a ELSE b

(***************************************************************************)
(* VectorService                                                           *)
(***************************************************************************)
VARIABLES
  maxRetries,     \* this.maxRetries
  retryDelay,     \* this.retryDelay
  vectorSize,     \* this.vectorSize
  vsPc,           \* where the running operation is: idle, attempt, sleeping, direct,
                  \* deleting, dropping, probing, creating, done
  vsOp,           \* the operation that was called
  vsDocs,         \* its documents (one for a single-point operation)
  vsBatchSize,    \* storeDocumentsBatch's batchSize
  failAt,         \* the store: the indices of the calls that fail
  storeResponse,  \* the store: what a successful search responds
  attempt,        \* executeWithRetry's loop counter
  batchPos,       \* storeDocumentsBatch's loop index i
  storeCalls,     \* the number of requests sent to the store
  upserts,        \* the upsert requests sent to the store, each a sequence of points
  waits,          \* the delays slept through, in order
  lastError,      \* executeWithRetry's lastError: the store call it came from (0: none yet)
  vsResult,       \* what the operation returned or threw
  vsCollection    \* the store: whether the collection exists

vsVars == <<maxRetries, retryDelay, vectorSize, vsPc, vsOp, vsDocs, vsBatchSize,
            failAt, storeResponse, attempt, batchPos, storeCalls, upserts, waits,
            lastError, vsResult, vsCollection>>

(***************************************************************************)
(* LLMService                                                              *)
(***************************************************************************)
VARIABLES
  contextWindowSize, \* RAG_CONTEXT_WINDOW_SIZE || 4000
  maxDocuments,      \* RAG_MAX_CONTEXT_DOCUMENTS || 5
  llmPc,             \* where generateAnswer is: idle, awaiting (the provider), done
  llmQuery,          \* generateAnswer's query
  llmDocs,           \* generateAnswer's documents
  llmOptions,        \* generateAnswer's options
  llmRequests,       \* the requests sent to the provider, in order
  llmOutcome,        \* what the provider did with the request
  llmResult,         \* what generateAnswer returned or threw
  ctxPc,             \* whether buildContext was called: idle, done
  ctxDocs,           \* buildContext's documents
  ctxResult          \* what buildContext returned

llmVars == <<contextWindowSize, maxDocuments, llmPc, llmQuery, llmDocs, llmOptions,
             llmRequests, llmOutcome, llmResult, ctxPc, ctxDocs, ctxResult>>

(***************************************************************************)
(* LLMService.optimizeContextForTokenLimit                                 *)
(***************************************************************************)
VARIABLES
  optPc,         \* whether optimizeContextForTokenLimit was called: idle, done
  optDocs,       \* its documents
  optMaxTokens,  \* its maxTokens
  optResult      \* the documents it returned

optVars == <<optPc, optDocs, optMaxTokens, optResult>>

(***************************************************************************)
(* RagService and the query log                                            *)
(***************************************************************************)
VARIABLES
  ragPc,          \* where the query is: idle, logging, embedding, searching,
                  \* updating (the try block's update), catching (the catch
                  \* block's update), done
  ragEntry,       \* the method that was called: text, voice
  ragQuery,       \* processTextQuery's query
  ragUserId,      \* its userId
  queryLogs,      \* the rows of the query log
  logUpdateCalls, \* the calls of queryLogRepository.update, in order, each with
                  \* its updates and whether the repository carried it out
  ragDocs,        \* similarDocuments
  ragAnswer,      \* answer
  ragCaught,      \* the error the catch block caught and the await it came from
  ragResult       \* what the call returned or threw

ragVars == <<ragPc, ragEntry, ragQuery, ragUserId, queryLogs, logUpdateCalls, ragDocs,
             ragAnswer, ragCaught, ragResult>>

(***************************************************************************)
(* TextChunkingService                                                     *)
(***************************************************************************)
VARIABLES
  chkPc,          \* where chunkText is: idle, fixed (in fixedSizeChunking's loop), done
  chkText,        \* its text
  chkOptions,     \* its options
  chkDocumentId,  \* its documentId
  chkI,           \* fixedSizeChunking's loop index i
  chkChunks,      \* fixedSizeChunking's chunks
  chkResult       \* what chunkText returned or threw

chkVars == <<chkPc, chkText, chkOptions, chkDocumentId, chkI, chkChunks, chkResult>>

(***************************************************************************)
(* TextPreprocessingService                                                *)
(***************************************************************************)
VARIABLES
  prepInput,   \* the text given to preprocess
  prepPasses   \* what the successive calls of preprocess returned

prepVars == <<prepInput, prepPasses>>

(***************************************************************************)
(* EmbeddingService.generateEmbeddings                                     *)
(***************************************************************************)
VARIABLES
  embPc,          \* where generateEmbeddings is: idle, awaiting (the provider), done
  embTexts,       \* its texts
  embValid,       \* validTexts
  embI,           \* the loop index i
  embEmbeddings,  \* embeddings
  embRequests,    \* the inputs of the requests sent to the provider, in order
  embResult       \* what generateEmbeddings returned or threw

embVars == <<embPc, embTexts, embValid, embI, embEmbeddings, embRequests, embResult>>

(***************************************************************************)
(* AdminService, DocumentsService, the document store and the collection   *)
(***************************************************************************)
VARIABLES
  documentStore,     \* the document store: the ids of its documents
  points,            \* the vector collection: the ids of its points
  collectionExists,  \* whether the vector collection exists
  admPc,             \* where the running operation is: idle, creating, embedding,
                     \* storing, deleting, removing, dropping, ensuring,
                     \* reindexing, done
  admOp,             \* the operation that was called, with its id or its dto
  admIdx,            \* reindexVectorDatabase's position in documentIds
  admNextId,         \* the number of the next document the store creates
  admResult          \* what the operation returned or threw

admVars == <<documentStore, points, collectionExists, admPc, admOp, admIdx, admNextId,
             admResult>>

(***************************************************************************)
(* RagService.uploadDocumentsBatch                                         *)
(***************************************************************************)
VARIABLES
  upPc,          \* where uploadDocumentsBatch is: idle, embedding, storing, done
  upDocs,        \* its documents
  upVectorDocs,  \* vectorDocuments, what it gives storeDocumentsBatch
  upPoints,      \* the points the store holds after the call
  upResult       \* what the call returned or threw

upVars == <<upPc, upDocs, upVectorDocs, upPoints, upResult>>

(***************************************************************************)
(* AdminService: operations running at the same time                       *)
(***************************************************************************)
VARIABLES
  taskPc   \* for each of the concurrent calls uploadTextDocument, deleteDocument
           \* and reindexVectorDatabase, the await it is at

concVars == <<taskPc>>

\* the state of the components other than VectorService and LLMService
restVars == <<optVars, ragVars, chkVars, prepVars, embVars, admVars, upVars, concVars>>

vars == <<vsVars, llmVars, restVars>>

\* what an action of VectorService leaves alone
VSFrame == UNCHANGED <<llmVars, restVars>>
\* what an action of LLMService leaves alone
LLMFrame == UNCHANGED <<vsVars, restVars>>
\* what optimizeContextForTokenLimit leaves alone
OptFrame == UNCHANGED <<vsVars, llmVars, ragVars, chkVars, prepVars, embVars, admVars, upVars,
                         concVars>>
\* what an action of RagService leaves alone
RagFrame == UNCHANGED <<vsVars, llmVars, optVars, chkVars, prepVars, embVars, admVars, upVars,
                         concVars>>
\* what an action of TextChunkingService leaves alone
ChunkFrame == UNCHANGED <<vsVars, llmVars, optVars, ragVars, prepVars, embVars, admVars, upVars,
                         concVars>>
\* what preprocess leaves alone
PrepFrame == UNCHANGED <<vsVars, llmVars, optVars, ragVars, chkVars, embVars, admVars, upVars,
                         concVars>>
\* what generateEmbeddings leaves alone
EmbFrame == UNCHANGED <<vsVars, llmVars, optVars, ragVars, chkVars, prepVars, admVars, upVars,
                         concVars>>
\* what uploadDocumentsBatch leaves alone
UploadFrame == UNCHANGED <<vsVars, llmVars, optVars, ragVars, chkVars, prepVars, embVars, admVars,
                         concVars>>
\* what a step of one of the concurrent calls leaves alone
TaskFrame ==
  UNCHANGED <<vsVars, llmVars, optVars, ragVars, chkVars, prepVars, embVars, upVars,
              collectionExists, admPc, admOp, admIdx, admNextId, admResult>>
\* what an operation of AdminService or DocumentsController leaves alone
AdminFrame == UNCHANGED <<vsVars, llmVars, optVars, ragVars, chkVars, prepVars, embVars, upVars,
                         concVars>>

\* an embedding vector of n components
Vec(n) == [i \in 1..n |-> 1]

RetryDelaysCfg == {0, 7}
VectorSizesCfg == {0, 2}
EmbeddingLengths == {1, 2}
BatchSizes == {1, 2, DefaultBatchSize}
ContextWindowSizesCfg == {0, 120, 200, 330}
MaxDocumentsCfg == {0, 1}
DocIds == <<"doc1", "doc2", "doc3", "doc4", "doc5">>

\* interface VectorDocument: the embedding is optional
VectorDocument(id, hasEmbedding, n) ==
  [id |-> id, content |-> "content of " \o id, hasEmbedding |-> hasEmbedding,
   embedding |-> IF hasEmbedding THEN Vec(n) ELSE <<>>]

DocChoices(id) ==
  {VectorDocument(id, FALSE, 0)} \cup {VectorDocument(id, TRUE, n) : n \in EmbeddingLengths}

\* the batches of n documents, the k-th having the k-th id
BatchesOfLen(n) ==
  {b \in [1..n -> UNION {DocChoices(DocIds[k]) : k \in 1..n}] :
     \A k \in 1..n : b[k].id = DocIds[k]}

Batches == UNION {BatchesOfLen(n) : n \in 0..MaxBatchDocs}

\* what qdrantClient.search resolves to: points with their payload ("" is an absent field)
ScoredPoint(id, score, title, metaTitle) ==
  [id |-> id, score |-> score, title |-> title, metaTitle |-> metaTitle,
   content |-> "content of " \o id]

StoreResponses ==
  { <<>>,
    <<ScoredPoint("doc1", 95, "", "")>>,
    <<ScoredPoint("doc1", 95, "FAQ", "Hours"), ScoredPoint("doc2", 87, "", "Meta")>> }

\* searchSimilarDocuments' response.map: the computed title, overridden by the
\* payload's own title when the spread ...payload carries one
SearchResultOf(p) ==
  LET computed == IF p.metaTitle # "" THEN p.metaTitle
                  ELSE IF p.title # "" THEN p.title
                  ELSE "Document " \o p.id
  IN [id |-> p.id, score |-> p.score,
      title |-> IF p.title # "" THEN p.title ELSE computed,
      content |-> p.content]

MapSearchResponse(response) == [k \in 1..Len(response) |-> SearchResultOf(response[k])]

NoResult == [kind |-> "pending", value |-> <<>>, message |-> "", call |-> 0]
Returned(value) == [kind |-> "ok", value |-> value, message |-> "", call |-> 0]
\* an error thrown by the service's own validation
Thrown(message) == [kind |-> "error", value |-> <<>>, message |-> message, call |-> 0]
\* the error that the store's call number `call` rejected with
StoreError(call) == [kind |-> "error", value |-> <<>>, message |-> "store error", call |-> call]

\* the operations that run inside executeWithRetry
RetriedOps == {"searchSimilarDocuments", "storeDocumentEnhanced", "storeDocumentsBatch"}
\* the operations that call the store directly, in a try/catch that rethrows
DirectOps == {"storeDocument", "updateDocument"}
\* the four operations outside executeWithRetry
UnretriedOps == DirectOps \cup {"deleteDocument", "reindexAllDocuments"}

\* constructor: the configuration is read once; onModuleInit has ensured the
\* collection
VSInit ==
  /\ maxRetries \in {OrDefault(c, DefaultMaxRetries) : c \in 0..MaxRetriesCfg}
  /\ retryDelay \in {OrDefault(c, DefaultRetryDelay) : c \in RetryDelaysCfg}
  /\ vectorSize \in {OrDefault(c, DefaultVectorSize) : c \in VectorSizesCfg}
  /\ vsPc = "idle"
  /\ vsOp = "none"
  /\ vsDocs = <<>>
  /\ vsBatchSize = DefaultBatchSize
  /\ failAt = {}
  /\ storeResponse = <<>>
  /\ attempt = 0
  /\ batchPos = 0
  /\ storeCalls = 0
  /\ upserts = <<>>
  /\ waits = <<>>
  /\ lastError = 0
  /\ vsResult = NoResult
  /\ vsCollection = TRUE

\* an operation is called: the store's behaviour during it is fixed by failAt
Call(op, docs, batchSize) ==
  /\ vsPc = "idle"
  /\ vsOp' = op
  /\ vsDocs' = docs
  /\ vsBatchSize' = batchSize
  /\ failAt' \in SUBSET (1..MaxStoreCalls)
  /\ UNCHANGED <<vsCollection, maxRetries, retryDelay, vectorSize, batchPos, storeCalls, upserts, waits,
                 lastError>>
  /\ VSFrame

\* executeWithRetry is entered: attempt = 1
EnterRetry ==
  /\ vsPc' = "attempt"
  /\ attempt' = 1
  /\ vsResult' = NoResult

\* the call fails before any request
FailFast(message) ==
  /\ vsPc' = "done"
  /\ attempt' = attempt
  /\ vsResult' = Thrown(message)

SearchSimilarDocuments ==
  /\ Call("searchSimilarDocuments", <<>>, DefaultBatchSize)
  /\ storeResponse' \in StoreResponses
  /\ EnterRetry

\* storeDocument(documentId, embedding, metadata): no validation, one upsert
StoreDocument ==
  /\ \E n \in EmbeddingLengths :
       Call("storeDocument", <<VectorDocument(DocIds[1], TRUE, n)>>, DefaultBatchSize)
  /\ vsPc' = "direct"
  /\ UNCHANGED <<storeResponse, attempt, vsResult>>

UpdateDocument ==
  /\ \E n \in EmbeddingLengths :
       Call("updateDocument", <<VectorDocument(DocIds[1], TRUE, n)>>, DefaultBatchSize)
  /\ vsPc' = "direct"
  /\ UNCHANGED <<storeResponse, attempt, vsResult>>

\* !document.embedding
MissingEmbedding(document) == ~document.hasEmbedding

StoreDocumentEnhanced ==
  \E document \in DocChoices(DocIds[1]) :
    /\ Call("storeDocumentEnhanced", <<document>>, DefaultBatchSize)
    /\ UNCHANGED storeResponse
    /\ IF MissingEmbedding(document)
         THEN FailFast("Document must have an embedding vector")
         ELSE EnterRetry

\* a validation that looks at the first document only
InvalidDocsAmongFirst(documents) == SelectSeq(SubSeq(documents, 1, 1), MissingEmbedding)

\* documents.filter((doc) => !doc.embedding)
InvalidDocs(documents) == SelectSeq(documents, MissingEmbedding)

StoreDocumentsBatch ==
  \E documents \in Batches, batchSize \in BatchSizes :
    /\ Call("storeDocumentsBatch", documents, batchSize)
    /\ UNCHANGED storeResponse
    /\ IF Len(documents) = 0
         THEN /\ vsPc' = "done"
              /\ attempt' = attempt
              /\ vsResult' = Returned(<<>>)
         ELSE IF Len(InvalidDocs(documents)) > 0
           THEN FailFast(ToString(Len(InvalidDocs(documents))) \o " documents missing embeddings")
           ELSE EnterRetry

\* the point an upsert sends for a document
PointOf(document) == [id |-> document.id, vector |-> document.embedding]

\* documents.slice(i, i + batchSize).map(...)
SubBatchPoints(documents, i, batchSize) ==
  [k \in 1..(Min(i + batchSize, Len(documents)) - i) |-> PointOf(documents[i + k])]

\* whether the store rejects its next request
NextCallFails == (storeCalls + 1) \in failAt

\* the operation inside executeWithRetry: its next request to the store succeeds
OperationStepSucceeds ==
  /\ vsPc = "attempt"
  /\ ~NextCallFails
  /\ storeCalls' = storeCalls + 1
  /\ CASE vsOp = "searchSimilarDocuments" ->
            /\ vsPc' = "done"
            /\ vsResult' = Returned(MapSearchResponse(storeResponse))
            /\ UNCHANGED <<upserts, batchPos>>
       [] vsOp = "storeDocumentEnhanced" ->
            /\ upserts' = Append(upserts, <<PointOf(vsDocs[1])>>)
            /\ vsPc' = "done"
            /\ vsResult' = Returned(<<>>)
            /\ UNCHANGED batchPos
       [] vsOp = "storeDocumentsBatch" ->
            /\ upserts' = Append(upserts, SubBatchPoints(vsDocs, batchPos, vsBatchSize))
            /\ batchPos' = batchPos + vsBatchSize
            /\ IF batchPos + vsBatchSize < Len(vsDocs)
                 THEN UNCHANGED <<vsPc, vsResult>>
                 ELSE /\ vsPc' = "done"
                      /\ vsResult' = Returned(<<>>)
  /\ UNCHANGED <<vsCollection, maxRetries, retryDelay, vectorSize, vsOp, vsDocs, vsBatchSize, failAt,
                 storeResponse, attempt, waits, lastError>>
  /\ VSFrame

\* a loop that gives up one attempt early
LastAttemptOneEarly(a) == a >= maxRetries - 1

\* attempt === this.maxRetries
LastAttempt(a) == a = maxRetries

\* a backoff that grows linearly
BackoffDelayLinear(a) == retryDelay * a

\* this.retryDelay * Math.pow(2, attempt - 1)
BackoffDelay(a) == retryDelay * Pow(2, a - 1)

\* a catch block that keeps the first error
CaughtErrorFirstKept(previous, call) == IF previous = 0 THEN call ELSE previous

\* lastError = error as Error
CaughtError(previous, call) == call

\* the operation's request fails: executeWithRetry's catch block
OperationStepFails ==
  /\ vsPc = "attempt"
  /\ NextCallFails
  /\ storeCalls' = storeCalls + 1
  /\ lastError' = CaughtError(lastError, storeCalls + 1)
  /\ IF LastAttempt(attempt)
       THEN /\ vsPc' = "done"
            /\ vsResult' = StoreError(lastError')
            /\ UNCHANGED waits
       ELSE /\ vsPc' = "sleeping"
            /\ waits' = Append(waits, BackoffDelay(attempt))
            /\ UNCHANGED vsResult
  /\ UNCHANGED <<vsCollection, maxRetries, retryDelay, vectorSize, vsOp, vsDocs, vsBatchSize, failAt,
                 storeResponse, attempt, batchPos, upserts>>
  /\ VSFrame

\* a retry that goes on from the sub-batch that failed
WakeResuming ==
  /\ vsPc = "sleeping"
  /\ attempt' = attempt + 1
  /\ batchPos' = batchPos
  /\ vsPc' = "attempt"
  /\ UNCHANGED <<vsCollection, maxRetries, retryDelay, vectorSize, vsOp, vsDocs, vsBatchSize, failAt,
                 storeResponse, storeCalls, upserts, waits, lastError, vsResult>>
  /\ VSFrame

\* the sleep ends: attempt++ and the operation starts again
Wake ==
  /\ vsPc = "sleeping"
  /\ attempt' = attempt + 1
  /\ batchPos' = 0
  /\ vsPc' = "attempt"
  /\ UNCHANGED <<vsCollection, maxRetries, retryDelay, vectorSize, vsOp, vsDocs, vsBatchSize, failAt,
                 storeResponse, storeCalls, upserts, waits, lastError, vsResult>>
  /\ VSFrame

\* storeDocument / updateDocument: the upsert succeeds
DirectCallSucceeds ==
  /\ vsPc = "direct"
  /\ ~NextCallFails
  /\ storeCalls' = storeCalls + 1
  /\ upserts' = Append(upserts, <<PointOf(vsDocs[1])>>)
  /\ vsPc' = "done"
  /\ vsResult' = Returned(<<>>)
  /\ UNCHANGED <<vsCollection, maxRetries, retryDelay, vectorSize, vsOp, vsDocs, vsBatchSize, failAt,
                 storeResponse, attempt, batchPos, waits, lastError>>
  /\ VSFrame

\* a single upsert that is sent again at once when it fails
DirectCallFailsAndRepeats ==
  /\ vsPc = "direct"
  /\ NextCallFails
  /\ storeCalls' = storeCalls + 1
  /\ UNCHANGED <<vsPc, vsResult>>
  /\ UNCHANGED <<vsCollection, maxRetries, retryDelay, vectorSize, vsOp, vsDocs, vsBatchSize,
                 failAt, storeResponse, attempt, batchPos, upserts, waits, lastError>>
  /\ VSFrame

\* storeDocument / updateDocument: the upsert fails, the catch block rethrows
DirectCallFails ==
  /\ vsPc = "direct"
  /\ NextCallFails
  /\ storeCalls' = storeCalls + 1
  /\ vsPc' = "done"
  /\ vsResult' = StoreError(storeCalls + 1)
  /\ UNCHANGED <<vsCollection, maxRetries, retryDelay, vectorSize, vsOp, vsDocs, vsBatchSize, failAt,
                 storeResponse, attempt, batchPos, upserts, waits, lastError>>
  /\ VSFrame

\* deleteDocument(documentId): one delete request
DeleteDocument ==
  /\ Call("deleteDocument", <<>>, DefaultBatchSize)
  /\ vsPc' = "deleting"
  /\ UNCHANGED <<storeResponse, attempt, vsResult>>

\* deleteDocument: the delete succeeds
DeleteRequestSucceeds ==
  /\ vsPc = "deleting"
  /\ ~NextCallFails
  /\ storeCalls' = storeCalls + 1
  /\ vsPc' = "done"
  /\ vsResult' = Returned(<<>>)
  /\ UNCHANGED <<vsCollection, maxRetries, retryDelay, vectorSize, vsOp, vsDocs, vsBatchSize,
                 failAt, storeResponse, attempt, batchPos, upserts, waits, lastError>>
  /\ VSFrame

\* deleteDocument: the delete fails, the catch block rethrows
DeleteRequestFails ==
  /\ vsPc = "deleting"
  /\ NextCallFails
  /\ storeCalls' = storeCalls + 1
  /\ vsPc' = "done"
  /\ vsResult' = StoreError(storeCalls + 1)
  /\ UNCHANGED <<vsCollection, maxRetries, retryDelay, vectorSize, vsOp, vsDocs, vsBatchSize,
                 failAt, storeResponse, attempt, batchPos, upserts, waits, lastError>>
  /\ VSFrame

\* reindexAllDocuments(): up to the await of deleteCollection
ReindexAllDocuments ==
  /\ Call("reindexAllDocuments", <<>>, DefaultBatchSize)
  /\ vsPc' = "dropping"
  /\ UNCHANGED <<storeResponse, attempt, vsResult>>

\* deleteCollection succeeds: ensureCollectionExists asks whether the
\* collection exists
DropCollectionSucceeds ==
  /\ vsPc = "dropping"
  /\ ~NextCallFails
  /\ storeCalls' = storeCalls + 1
  /\ vsCollection' = FALSE
  /\ vsPc' = "probing"
  /\ UNCHANGED <<maxRetries, retryDelay, vectorSize, vsOp, vsDocs, vsBatchSize, failAt,
                 storeResponse, attempt, batchPos, upserts, waits, lastError, vsResult>>
  /\ VSFrame

\* collectionExists answers: createCollection is awaited if it does not exist
CollectionProbeSucceeds ==
  /\ vsPc = "probing"
  /\ ~NextCallFails
  /\ storeCalls' = storeCalls + 1
  /\ IF vsCollection
       THEN /\ vsPc' = "done"
            /\ vsResult' = Returned(<<>>)
       ELSE /\ vsPc' = "creating"
            /\ UNCHANGED vsResult
  /\ UNCHANGED <<vsCollection, maxRetries, retryDelay, vectorSize, vsOp, vsDocs, vsBatchSize,
                 failAt, storeResponse, attempt, batchPos, upserts, waits, lastError>>
  /\ VSFrame

\* createCollection succeeds: reindexAllDocuments returns
CreateCollectionSucceeds ==
  /\ vsPc = "creating"
  /\ ~NextCallFails
  /\ storeCalls' = storeCalls + 1
  /\ vsCollection' = TRUE
  /\ vsPc' = "done"
  /\ vsResult' = Returned(<<>>)
  /\ UNCHANGED <<maxRetries, retryDelay, vectorSize, vsOp, vsDocs, vsBatchSize, failAt,
                 storeResponse, attempt, batchPos, upserts, waits, lastError>>
  /\ VSFrame

\* a request of reindexAllDocuments fails: the catch blocks rethrow
ReindexRequestFails ==
  /\ vsPc \in {"dropping", "probing", "creating"}
  /\ NextCallFails
  /\ storeCalls' = storeCalls + 1
  /\ vsPc' = "done"
  /\ vsResult' = StoreError(storeCalls + 1)
  /\ UNCHANGED <<vsCollection, maxRetries, retryDelay, vectorSize, vsOp, vsDocs, vsBatchSize,
                 failAt, storeResponse, attempt, batchPos, upserts, waits, lastError>>
  /\ VSFrame

VSNext ==
  \/ SearchSimilarDocuments
  \/ StoreDocument
  \/ UpdateDocument
  \/ StoreDocumentEnhanced
  \/ StoreDocumentsBatch
  \/ OperationStepSucceeds
  \/ OperationStepFails
  \/ Wake
  \/ DirectCallSucceeds
  \/ DirectCallFails
  \/ DeleteDocument
  \/ DeleteRequestSucceeds
  \/ DeleteRequestFails
  \/ ReindexAllDocuments
  \/ DropCollectionSucceeds
  \/ CollectionProbeSucceeds
  \/ CreateCollectionSucceeds
  \/ ReindexRequestFails

(***************************************************************************)
(* LLMService: strings                                                     *)
(***************************************************************************)
Max(a, b) == IF a > b THEN a ELSE b

\* the character of s at position i (1-based)
CharAt(s, i) == SubSeq(s, i, i)

\* the characters String.prototype.trim strips, as far as the inputs hold them
IsWhitespace(c) == c \in {" ", "\n", "\t", "\r"}

RECURSIVE TrimStart(_)
TrimStart(s) ==
  IF Len(s) > 0 /\ IsWhitespace(CharAt(s, 1)) THEN TrimStart(SubSeq(s, 2, Len(s))) ELSE s

RECURSIVE TrimEnd(_)
TrimEnd(s) ==
  IF Len(s) > 0 /\ IsWhitespace(CharAt(s, Len(s))) THEN TrimEnd(SubSeq(s, 1, Len(s) - 1)) ELSE s

\* String.prototype.trim
Trim(s) == TrimEnd(TrimStart(s))

\* String.prototype.substring(start, end): both clamped to 0..length, swapped if needed
Substring(s, start, end) ==
  LET a == Max(0, Min(start, Len(s)))
      b == Max(0, Min(end, Len(s)))
  IN SubSeq(s, Min(a, b) + 1, Max(a, b))

RECURSIVE Rep(_, _)
\* s repeated n times
Rep(s, n) == IF n = 0 THEN "" ELSE s \o Rep(s, n - 1)

\* a text of n characters without whitespace
Filler(n) == SubSeq(Rep("0123456789", (n \div 10) + 1), 1, n)

(***************************************************************************)
(* LLMService: buildContext                                                *)
(***************************************************************************)
DefaultContextWindowSize == 4000
DefaultMaxDocuments == 5
\* "Leave some buffer"
TruncationBuffer == 50
\* the least remaining space worth a partial document
MinRemainingSpace == 100

\* interface DocumentContext ("" is an absent title)
DocumentContext(id, content, title, score) ==
  [id |-> id, content |-> content, title |-> title, score |-> score]

RECURSIVE InsertByScore(_, _)
\* doc put behind every document of sorted whose score is not lower
InsertByScore(sorted, doc) ==
  IF Len(sorted) = 0 THEN <<doc>>
  ELSE IF Head(sorted).score >= doc.score
    THEN <<Head(sorted)>> \o InsertByScore(Tail(sorted), doc)
    ELSE <<doc>> \o sorted

RECURSIVE SortByScore(_)
\* documents.sort((a, b) => b.score - a.score): stable, highest score first
SortByScore(documents) ==
  IF Len(documents) = 0 THEN <<>>
  ELSE InsertByScore(SortByScore(SubSeq(documents, 1, Len(documents) - 1)),
                     documents[Len(documents)])

\* .slice(0, maxDocuments)
SortedDocuments(documents, maxDocs) ==
  SubSeq(SortByScore(documents), 1, Min(maxDocs, Len(documents)))

\* doc.title || `Document ${doc.id}`
DocTitle(doc) == IF doc.title # "" THEN doc.title ELSE "Document " \o doc.id

DocHeader(doc) == "[Source: " \o DocTitle(doc) \o "]\n"

DocText(doc) == DocHeader(doc) \o Trim(doc.content) \o "\n\n"

\* a remaining space that forgets the header and the buffer
RemainingSpaceWhole(windowSize, currentLength, docHeader) == windowSize - currentLength

\* contextWindowSize - currentLength - docHeader.length - 50
RemainingSpace(windowSize, currentLength, docHeader) ==
  windowSize - currentLength - Len(docHeader) - TruncationBuffer

\* the document that does not fit: its header and a prefix of its content, or nothing
PartialText(doc, windowSize, currentLength) ==
  LET remainingSpace == RemainingSpace(windowSize, currentLength, DocHeader(doc))
  IN IF remainingSpace > MinRemainingSpace
       THEN DocHeader(doc) \o Substring(doc.content, 0, remainingSpace) \o "...\n\n"
       ELSE ""

RECURSIVE PackContextSkipping(_, _, _, _, _)
\* a loop that goes on to the next document where buildContext breaks
PackContextSkipping(sorted, k, context, currentLength, windowSize) ==
  IF k > Len(sorted) THEN context
  ELSE IF currentLength + Len(DocText(sorted[k])) > windowSize
    THEN PackContextSkipping(sorted, k + 1,
                             context \o PartialText(sorted[k], windowSize, currentLength),
                             currentLength, windowSize)
    ELSE PackContextSkipping(sorted, k + 1, context \o DocText(sorted[k]),
                             currentLength + Len(DocText(sorted[k])), windowSize)

RECURSIVE PackContext(_, _, _, _, _)
\* the loop of buildContext from its k-th document on
PackContext(sorted, k, context, currentLength, windowSize) ==
  IF k > Len(sorted) THEN context
  ELSE IF currentLength + Len(DocText(sorted[k])) > windowSize
    THEN context \o PartialText(sorted[k], windowSize, currentLength)
    ELSE PackContext(sorted, k + 1, context \o DocText(sorted[k]),
                     currentLength + Len(DocText(sorted[k])), windowSize)

BuildContext(documents, windowSize, maxDocs) ==
  Trim(PackContext(SortedDocuments(documents, maxDocs), 1, "", 0, windowSize))

(***************************************************************************)
(* LLMService: generateAnswer                                              *)
(***************************************************************************)
OpenAIModelCfg == "gpt-3.5-turbo"
OpenAISystemPromptCfg == "You are a helpful AI assistant."
OpenAIMaxTokensCfg == 1000
\* OPENAI_TEMPERATURE 0.7, in hundredths
OpenAITemperatureCfg == 70

NoContextResponse ==
  "I apologize, but I couldn't find any relevant information in the knowledge base to answer your question. Please try rephrasing your query or contact support for assistance with topics not covered in our documentation."

FallbackResponse ==
  "I encountered an issue while generating a response to your question. Please try asking again, or contact support if the problem persists."

HighDemandResponse ==
  "I apologize, but I'm currently experiencing high demand. Please try again in a moment."

AuthenticationResponse ==
  "I'm experiencing authentication issues. Please contact support if this persists."

\* customPrompt || OPENAI_SYSTEM_PROMPT, then the instructions
BuildSystemPrompt(customPrompt) ==
  (IF customPrompt # "" THEN customPrompt ELSE OpenAISystemPromptCfg)
  \o "\n\nInstructions:\n- Use ONLY the provided context documents to answer questions"
  \o "\n- If the context doesn't contain enough information, clearly state that"
  \o "\n- Be concise but thorough in your responses"
  \o "\n- Maintain a helpful and professional tone"
  \o "\n- When referencing specific information, you may mention the source document"
  \o "\n- If multiple sources contain relevant information, synthesize them coherently"

BuildUserPrompt(query, context, includeSourceInfo) ==
  "Context Documents:\n\n" \o context \o "\n\n"
  \o "Question: " \o query \o "\n\n"
  \o "Please provide a helpful answer based on the context documents above."
  \o (IF includeSourceInfo
        THEN " If you reference specific information, you may mention which source document it came from."
        ELSE "")

\* the argument of openai.chat.completions.create
CompletionRequest(query, documents, options) ==
  [model |-> OpenAIModelCfg,
   system |-> BuildSystemPrompt(options.systemPrompt),
   user |-> BuildUserPrompt(query, BuildContext(documents, contextWindowSize, maxDocuments),
                            options.includeSourceInfo),
   max_tokens |-> OrDefault(options.maxTokens, OpenAIMaxTokensCfg),
   temperature |-> OrDefault(options.temperature, OpenAITemperatureCfg)]

Queries ==
  {"", "What are your business hours?",
   "Could you tell me, in as much detail as you have, about returns?"}

\* interface LLMGenerationOptions: 0 and "" are absent fields
OptionsChoices ==
  [maxTokens : {0, 256}, temperature : {0, 20}, systemPrompt : {"", "Answer briefly."},
   includeSourceInfo : BOOLEAN]

HoursDoc == DocumentContext("doc1", "Monday through Friday, 9 AM to 6 PM EST", "Hours", 95)
SampleDoc == DocumentContext("doc2", " This is another sample document. \n", "", 87)

AnswerDocLists == {<<>>, <<HoursDoc>>, <<SampleDoc, HoursDoc>>}

\* what the provider resolves to: choices[0]?.message?.content
ProviderResponses ==
  {[hasChoice |-> FALSE, hasContent |-> FALSE, content |-> ""],
   [hasChoice |-> TRUE, hasContent |-> FALSE, content |-> ""]}
  \cup {[hasChoice |-> TRUE, hasContent |-> TRUE, content |-> c] :
          c \in {"", " ", "\n\t ", "9 AM to 6 PM", " 9 AM to 6 PM\n", "x"}}

\* what the provider rejects with: an error with or without a status
ProviderErrors ==
  {[hasStatus |-> FALSE, status |-> 0]}
  \cup {[hasStatus |-> TRUE, status |-> st] : st \in {0, 400, 401, 429, 500}}

PendingAnswer == [kind |-> "pending", text |-> ""]
ReturnedAnswer(text) == [kind |-> "returned", text |-> text]
ThrownAnswer == [kind |-> "threw", text |-> ""]

\* the constructor reads no configuration; buildContext reads it at each call
LLMInit ==
  /\ contextWindowSize \in {OrDefault(c, DefaultContextWindowSize) : c \in ContextWindowSizesCfg}
  /\ maxDocuments \in {OrDefault(c, DefaultMaxDocuments) : c \in MaxDocumentsCfg}
  /\ llmPc = "idle"
  /\ llmQuery = ""
  /\ llmDocs = <<>>
  /\ llmOptions = [maxTokens |-> 0, temperature |-> 0, systemPrompt |-> "",
                   includeSourceInfo |-> FALSE]
  /\ llmRequests = <<>>
  /\ llmOutcome = [kind |-> "none"]
  /\ llmResult = PendingAnswer
  /\ ctxPc = "idle"
  /\ ctxDocs = <<>>
  /\ ctxResult = ""

\* a check that no array passes
NoDocumentsNever(documents) == FALSE

\* documents.length === 0
NoDocuments(documents) == Len(documents) = 0

\* generateAnswer up to its await of the provider
GenerateAnswer ==
  /\ llmPc = "idle"
  /\ \E query \in Queries, documents \in AnswerDocLists, options \in OptionsChoices :
       /\ llmQuery' = query
       /\ llmDocs' = documents
       /\ llmOptions' = options
       /\ IF NoDocuments(documents)
            THEN /\ llmPc' = "done"
                 /\ llmResult' = ReturnedAnswer(NoContextResponse)
                 /\ UNCHANGED llmRequests
            ELSE /\ llmPc' = "awaiting"
                 /\ llmRequests' = Append(llmRequests,
                                          CompletionRequest(query, documents, options))
                 /\ UNCHANGED llmResult
  /\ UNCHANGED <<contextWindowSize, maxDocuments, llmOutcome, ctxPc, ctxDocs, ctxResult>>
  /\ LLMFrame

\* response.choices[0]?.message?.content?.trim(); "" stands for undefined too
AnswerOf(response) ==
  IF response.hasChoice /\ response.hasContent THEN Trim(response.content) ELSE ""

\* the rest of the try block: if (!answer) the fallback, else the answer
ResponseResult(response) ==
  IF AnswerOf(response) = ""
    THEN ReturnedAnswer(FallbackResponse)
    ELSE ReturnedAnswer(AnswerOf(response))

\* a catch block that rethrows what it does not recognise
CatchResultRethrowing(error) ==
  IF error.hasStatus /\ error.status = 429 THEN ReturnedAnswer(HighDemandResponse)
  ELSE IF error.hasStatus /\ error.status = 401 THEN ReturnedAnswer(AuthenticationResponse)
  ELSE ThrownAnswer

\* a catch block without the 401 branch
CatchResultWithout401(error) ==
  IF error.hasStatus /\ error.status = 429 THEN ReturnedAnswer(HighDemandResponse)
  ELSE ReturnedAnswer(FallbackResponse)

\* the catch block
CatchResult(error) ==
  IF error.hasStatus /\ error.status = 429 THEN ReturnedAnswer(HighDemandResponse)
  ELSE IF error.hasStatus /\ error.status = 401 THEN ReturnedAnswer(AuthenticationResponse)
  ELSE ReturnedAnswer(FallbackResponse)

\* the provider resolves
ProviderResponds ==
  /\ llmPc = "awaiting"
  /\ \E response \in ProviderResponses :
       /\ llmOutcome' = [kind |-> "response", response |-> response]
       /\ llmResult' = ResponseResult(response)
  /\ llmPc' = "done"
  /\ UNCHANGED <<contextWindowSize, maxDocuments, llmQuery, llmDocs, llmOptions, llmRequests,
                 ctxPc, ctxDocs, ctxResult>>
  /\ LLMFrame

\* the provider rejects
ProviderFails ==
  /\ llmPc = "awaiting"
  /\ \E error \in ProviderErrors :
       /\ llmOutcome' = [kind |-> "error", error |-> error]
       /\ llmResult' = CatchResult(error)
  /\ llmPc' = "done"
  /\ UNCHANGED <<contextWindowSize, maxDocuments, llmQuery, llmDocs, llmOptions, llmRequests,
                 ctxPc, ctxDocs, ctxResult>>
  /\ LLMFrame

ContextContents == {"", " " \o Filler(40) \o "\n", Filler(130), " " \o Filler(300)}

ContextDocChoices(id) ==
  {DocumentContext(id, content, title, score) :
     content \in ContextContents, title \in {"", "Guide"}, score \in {70, 95}}

ContextDocListsOfLen(n) ==
  {l \in [1..n -> UNION {ContextDocChoices(DocIds[k]) : k \in 1..n}] :
     \A k \in 1..n : l[k].id = DocIds[k]}

ContextDocLists == UNION {ContextDocListsOfLen(n) : n \in 0..MaxContextDocs}

\* buildContext called on its own
BuildContextCall ==
  /\ ctxPc = "idle"
  /\ llmPc = "idle"
  /\ \E documents \in ContextDocLists :
       /\ ctxDocs' = documents
       /\ ctxResult' = BuildContext(documents, contextWindowSize, maxDocuments)
  /\ ctxPc' = "done"
  /\ UNCHANGED <<contextWindowSize, maxDocuments, llmPc, llmQuery, llmDocs, llmOptions,
                 llmRequests, llmOutcome, llmResult>>
  /\ LLMFrame

LLMNext ==
  \/ GenerateAnswer
  \/ ProviderResponds
  \/ ProviderFails

ContextNext == BuildContextCall

(***************************************************************************)
(* LLMService.optimizeContextForTokenLimit                                 *)
(***************************************************************************)
CharsPerToken == 4
MinRemainingTokens == 50

\* estimateTokens: Math.ceil(text.length / 4)
EstimateTokens(text) == (Len(text) + CharsPerToken - 1) \div CharsPerToken

RECURSIVE PackTokens(_, _, _, _)
\* the for loop from sortedDocs[k] on, with totalTokens already counted for
\* optimizedDocs; what it pushes from there on
PackTokens(sortedDocs, k, totalTokens, maxTokens) ==
  IF k > Len(sortedDocs) THEN <<>>
  ELSE LET doc == sortedDocs[k]
           docTokens == EstimateTokens(doc.content)
           remainingTokens == maxTokens - totalTokens
           maxChars == remainingTokens * CharsPerToken
       IN IF totalTokens + docTokens <= maxTokens
            THEN <<doc>> \o PackTokens(sortedDocs, k + 1, totalTokens + docTokens, maxTokens)
            ELSE IF remainingTokens > MinRemainingTokens
                   THEN <<[doc EXCEPT !.content = Substring(doc.content, 0, maxChars) \o "..."]>>
                   ELSE <<>>

OptimizeContextForTokenLimit(documents, maxTokens) ==
  PackTokens(SortByScore(documents), 1, 0, maxTokens)

TokenLimits == {20, 60, 100, 1000}

\* optimizeContextForTokenLimit called on its own
OptimizeContextCall ==
  /\ optPc = "idle"
  /\ \E documents \in ContextDocLists, maxTokens \in TokenLimits :
       /\ optDocs' = documents
       /\ optMaxTokens' = maxTokens
       /\ optResult' = OptimizeContextForTokenLimit(documents, maxTokens)
  /\ optPc' = "done"
  /\ OptFrame

TokensNext == OptimizeContextCall

\* optimizeContextForTokenLimit not called
OptIdle ==
  /\ optPc = "idle"
  /\ optDocs = <<>>
  /\ optMaxTokens = 0
  /\ optResult = <<>>

(***************************************************************************)
(* RagService: processTextQuery, processVoiceQuery and the query log       *)
(***************************************************************************)
\* enum QueryType
QueryTypeText == "text"
QueryTypeVoice == "voice"

\* processVoiceQuery's transcribedText
PlaceholderTranscription == "Placeholder transcription"

RagQueries == {"", "  ", "What are your hours?"}
UserIds == {"", "user1"}
\* Date.now() - queryLog.createdAt.getTime()
ElapsedTimes == {0, 35}

\* what searchSimilarDocumentsAdvanced resolves to; "" is an absent title or
\* content (a point without payload)
SimilarDocumentLists ==
  { <<>>,
    <<[id |-> "doc1", score |-> 95, title |-> "", content |-> ""]>>,
    <<[id |-> "doc1", score |-> 95, title |-> "Hours", content |-> "content of doc1"],
      [id |-> "doc2", score |-> 87, title |-> "Document doc2", content |-> "content of doc2"]>> }

\* the errors of the collaborators
EmptyTextError == "Text cannot be empty for embedding generation"
EmbeddingProviderError == "Failed to generate embedding: provider error"
SearchError == "store error"
LogSaveError == "query log save error"
LogUpdateError == "query log update error"

NoError == [from |-> "none", message |-> ""]
ErrorFrom(stage, message) == [from |-> stage, message |-> message]

RagPending == [kind |-> "pending", answer |-> "", sources |-> <<>>, queryId |-> "",
               message |-> ""]
RagReturned(answer, sources, queryId) ==
  [kind |-> "returned", answer |-> answer, sources |-> sources, queryId |-> queryId,
   message |-> ""]
RagThrown(message) ==
  [kind |-> "threw", answer |-> "", sources |-> <<>>, queryId |-> "", message |-> message]

\* the row that queryLogRepository.create(data) and save make: the columns
\* not given take their defaults ("" is null)
QueryLogRow(id, data) ==
  [id |-> id, query |-> data.query, sessionId |-> data.sessionId,
   queryType |-> data.queryType, status |-> "success", response |-> "",
   errorMessage |-> "", responseTime |-> 0, documentsRetrieved |-> 0]

\* the data processTextQuery gives logQuery
LogQueryData(query, userId) ==
  [query |-> query, sessionId |-> userId, queryType |-> QueryTypeText]

\* the updates of the try block
ResultUpdates(answer, documents, elapsed) ==
  [kind |-> "result", response |-> answer, documentsRetrieved |-> Len(documents),
   errorMessage |-> "", responseTime |-> elapsed]

\* updates that leave the message out
ErrorUpdatesWithoutMessage(message, elapsed) ==
  [kind |-> "error", response |-> "", documentsRetrieved |-> 0,
   errorMessage |-> "", responseTime |-> elapsed]

\* the updates of the catch block
ErrorUpdates(message, elapsed) ==
  [kind |-> "error", response |-> "", documentsRetrieved |-> 0,
   errorMessage |-> message, responseTime |-> elapsed]

\* queryLogRepository.update(id, updates) carried out: the columns named in
\* updates are set, the others kept
ApplyUpdates(rows, id, updates) ==
  [k \in 1..Len(rows) |->
     IF rows[k].id # id THEN rows[k]
     ELSE IF updates.kind = "result"
       THEN [rows[k] EXCEPT !.response = updates.response,
                            !.documentsRetrieved = updates.documentsRetrieved,
                            !.responseTime = updates.responseTime]
       ELSE [rows[k] EXCEPT !.errorMessage = updates.errorMessage,
                            !.responseTime = updates.responseTime]]

\* RagService.generateAnswer, the placeholder
RagGenerateAnswer(query, documents) ==
  IF Len(documents) = 0
    THEN "I couldn't find any relevant information to answer your question. Please try rephrasing your query."
    ELSE "Based on the available documentation, here's what I found: "
         \o (IF documents[1].title # "" THEN documents[1].title ELSE "relevant information")
         \o ". This is a placeholder response that will be replaced with actual LLM-generated answers in Stage 2."

\* similarDocuments.map(...) of the returned value
SourcesOf(documents) ==
  [k \in 1..Len(documents) |->
     [id |-> documents[k].id,
      title |-> IF documents[k].title # "" THEN documents[k].title
                ELSE "Document " \o documents[k].id,
      content |-> documents[k].content,
      score |-> documents[k].score]]

\* the id the repository gives the next row
NextLogId == "log" \o ToString(Len(queryLogs) + 1)

\* the row of the running call
CurrentLogId == "log" \o ToString(Len(queryLogs))

\* RagController.textQuery -> processTextQuery, up to the await of logQuery
ProcessTextQuery ==
  /\ ragPc = "idle"
  /\ \E query \in RagQueries, userId \in UserIds :
       /\ ragQuery' = query
       /\ ragUserId' = userId
  /\ ragEntry' = "text"
  /\ ragPc' = "logging"
  /\ UNCHANGED <<queryLogs, logUpdateCalls, ragDocs, ragAnswer, ragCaught, ragResult>>
  /\ RagFrame

\* RagController.voiceQuery -> processVoiceQuery -> processTextQuery, up to the
\* await of logQuery
ProcessVoiceQuery ==
  /\ ragPc = "idle"
  /\ \E userId \in UserIds : ragUserId' = userId
  /\ ragQuery' = PlaceholderTranscription
  /\ ragEntry' = "voice"
  /\ ragPc' = "logging"
  /\ UNCHANGED <<queryLogs, logUpdateCalls, ragDocs, ragAnswer, ragCaught, ragResult>>
  /\ RagFrame

\* logQuery resolves: the row exists, generateEmbedding is awaited
LogQuerySaved ==
  /\ ragPc = "logging"
  /\ queryLogs' = Append(queryLogs, QueryLogRow(NextLogId, LogQueryData(ragQuery, ragUserId)))
  /\ ragPc' = "embedding"
  /\ UNCHANGED <<ragEntry, ragQuery, ragUserId, logUpdateCalls, ragDocs, ragAnswer,
                 ragCaught, ragResult>>
  /\ RagFrame

\* logQuery rejects, outside the try block
LogQueryFails ==
  /\ ragPc = "logging"
  /\ ragResult' = RagThrown(LogSaveError)
  /\ ragPc' = "done"
  /\ UNCHANGED <<ragEntry, ragQuery, ragUserId, queryLogs, logUpdateCalls, ragDocs,
                 ragAnswer, ragCaught>>
  /\ RagFrame

\* generateEmbedding's check: !text || text.trim().length === 0
BlankText(text) == Len(Trim(text)) = 0

\* generateEmbedding resolves: searchSimilarDocumentsAdvanced is awaited
EmbeddingResolves ==
  /\ ragPc = "embedding"
  /\ ~BlankText(ragQuery)
  /\ ragPc' = "searching"
  /\ UNCHANGED <<ragEntry, ragQuery, ragUserId, queryLogs, logUpdateCalls, ragDocs,
                 ragAnswer, ragCaught, ragResult>>
  /\ RagFrame

\* a rejection of generateEmbedding that is noted, after which the search is
\* awaited all the same
EmbeddingFailsThenSearches ==
  /\ ragPc = "embedding"
  /\ ragCaught' = ErrorFrom("embedding",
                            IF BlankText(ragQuery) THEN EmptyTextError
                            ELSE EmbeddingProviderError)
  /\ ragPc' = "searching"
  /\ UNCHANGED <<ragEntry, ragQuery, ragUserId, queryLogs, logUpdateCalls, ragDocs,
                 ragAnswer, ragResult>>
  /\ RagFrame

\* generateEmbedding rejects (a blank text, or the provider failed): the catch
\* block awaits updateQueryLog
EmbeddingFails ==
  /\ ragPc = "embedding"
  /\ ragCaught' = ErrorFrom("embedding",
                            IF BlankText(ragQuery) THEN EmptyTextError
                            ELSE EmbeddingProviderError)
  /\ ragPc' = "catching"
  /\ UNCHANGED <<ragEntry, ragQuery, ragUserId, queryLogs, logUpdateCalls, ragDocs,
                 ragAnswer, ragResult>>
  /\ RagFrame

\* the search resolves; generateAnswer; the try block awaits updateQueryLog
SearchResolves ==
  /\ ragPc = "searching"
  /\ \E similarDocuments \in SimilarDocumentLists :
       /\ ragDocs' = similarDocuments
       /\ ragAnswer' = RagGenerateAnswer(ragQuery, similarDocuments)
  /\ ragPc' = "updating"
  /\ UNCHANGED <<ragEntry, ragQuery, ragUserId, queryLogs, logUpdateCalls, ragCaught,
                 ragResult>>
  /\ RagFrame

\* the search rejects, its retries exhausted: the catch block awaits
\* updateQueryLog
SearchFails ==
  /\ ragPc = "searching"
  /\ ragCaught' = ErrorFrom("search", SearchError)
  /\ ragPc' = "catching"
  /\ UNCHANGED <<ragEntry, ragQuery, ragUserId, queryLogs, logUpdateCalls, ragDocs,
                 ragAnswer, ragResult>>
  /\ RagFrame

\* the try block's updateQueryLog resolves: the call returns
UpdateQueryLogResolves ==
  /\ ragPc = "updating"
  /\ \E elapsed \in ElapsedTimes :
       LET updates == ResultUpdates(ragAnswer, ragDocs, elapsed)
       IN /\ queryLogs' = ApplyUpdates(queryLogs, CurrentLogId, updates)
          /\ logUpdateCalls' = Append(logUpdateCalls, [updates |-> updates, ok |-> TRUE])
  /\ ragResult' = RagReturned(ragAnswer, SourcesOf(ragDocs), CurrentLogId)
  /\ ragPc' = "done"
  /\ UNCHANGED <<ragEntry, ragQuery, ragUserId, ragDocs, ragAnswer, ragCaught>>
  /\ RagFrame

\* the try block's updateQueryLog rejects: the catch block catches that error
\* and awaits updateQueryLog
UpdateQueryLogFails ==
  /\ ragPc = "updating"
  /\ \E elapsed \in ElapsedTimes :
       logUpdateCalls' = Append(logUpdateCalls,
                                [updates |-> ResultUpdates(ragAnswer, ragDocs, elapsed),
                                 ok |-> FALSE])
  /\ ragCaught' = ErrorFrom("update", LogUpdateError)
  /\ ragPc' = "catching"
  /\ UNCHANGED <<ragEntry, ragQuery, ragUserId, queryLogs, ragDocs, ragAnswer, ragResult>>
  /\ RagFrame

\* the catch block's updateQueryLog resolves: throw error
CatchUpdateResolves ==
  /\ ragPc = "catching"
  /\ \E elapsed \in ElapsedTimes :
       LET updates == ErrorUpdates(ragCaught.message, elapsed)
       IN /\ queryLogs' = ApplyUpdates(queryLogs, CurrentLogId, updates)
          /\ logUpdateCalls' = Append(logUpdateCalls, [updates |-> updates, ok |-> TRUE])
  /\ ragResult' = RagThrown(ragCaught.message)
  /\ ragPc' = "done"
  /\ UNCHANGED <<ragEntry, ragQuery, ragUserId, ragDocs, ragAnswer, ragCaught>>
  /\ RagFrame

\* the catch block's updateQueryLog rejects: its error leaves the call
CatchUpdateFails ==
  /\ ragPc = "catching"
  /\ \E elapsed \in ElapsedTimes :
       logUpdateCalls' = Append(logUpdateCalls,
                                [updates |-> ErrorUpdates(ragCaught.message, elapsed),
                                 ok |-> FALSE])
  /\ ragResult' = RagThrown(LogUpdateError)
  /\ ragPc' = "done"
  /\ UNCHANGED <<ragEntry, ragQuery, ragUserId, queryLogs, ragDocs, ragAnswer, ragCaught>>
  /\ RagFrame

RagNext ==
  \/ ProcessTextQuery
  \/ ProcessVoiceQuery
  \/ LogQuerySaved
  \/ LogQueryFails
  \/ EmbeddingResolves
  \/ EmbeddingFails
  \/ SearchResolves
  \/ SearchFails
  \/ UpdateQueryLogResolves
  \/ UpdateQueryLogFails
  \/ CatchUpdateResolves
  \/ CatchUpdateFails

\* RagService constructed, the query log empty
RagIdle ==
  /\ ragPc = "idle"
  /\ ragEntry = "none"
  /\ ragQuery = ""
  /\ ragUserId = ""
  /\ queryLogs = <<>>
  /\ logUpdateCalls = <<>>
  /\ ragDocs = <<>>
  /\ ragAnswer = ""
  /\ ragCaught = NoError
  /\ ragResult = RagPending

(***************************************************************************)
(* TextChunkingService                                                     *)
(***************************************************************************)
\* enum ChunkingStrategy
FixedSize == "fixed_size"
SentenceBoundary == "sentence_boundary"
Semantic == "semantic"
TokenAware == "token_aware"

\* chunkText's sourceFile
SourceFile == "guide.txt"

ChunkTexts ==
  {"", "   ", "ab   cd", "Hello world. How are you? Fine!", "One.. two!  ", "a.b.c"}
Strategies == {FixedSize, SentenceBoundary, Semantic, TokenAware, "paragraph"}
\* ChunkingOptions: two numbers, as ChunkingOptionsDto requires; the step
\* maxChunkSize - overlapSize is positive, zero or negative
ChunkingOptions ==
  {[strategy |-> st, maxChunkSize |-> m, overlapSize |-> o] :
     st \in Strategies, m \in {2, 5, 12}, o \in {0, 1, 2, 4}}

\* String.prototype.slice(start, end): a negative index counts from the end
Slice(s, start, end) ==
  LET from == IF start < 0 THEN Max(Len(s) + start, 0) ELSE Min(start, Len(s))
      to == IF end < 0 THEN Max(Len(s) + end, 0) ELSE Min(end, Len(s))
  IN IF from < to THEN SubSeq(s, from + 1, to) ELSE ""

\* createChunk's tokenCount in text-chunking.service.ts, and the estimation
\* countTokens falls back to when the tokenizer fails: Math.ceil(text.length / 4)
CountTokens(text) == (Len(text) + CharsPerToken - 1) \div CharsPerToken

\* getLastNTokensAsText's character fallback: text.slice(-n * 4)
GetLastNTokensAsText(text, n) ==
  SubSeq(text, Max(1, Len(text) - n * CharsPerToken + 1), Len(text))

\* a chunk whose end is counted from its trimmed content
CreateChunkTrimmedEnd(content, index, documentId, sourceFile, strategy, startPosition, endPosition) ==
  [id |-> documentId \o "_chunk_" \o ToString(index),
   content |-> Trim(content),
   metadata |-> [sourceFile |-> sourceFile, chunkIndex |-> index, totalChunks |-> 0,
                 startPosition |-> startPosition,
                 endPosition |-> startPosition + Len(Trim(content)),
                 tokenCount |-> CountTokens(content), chunkingStrategy |-> strategy]]

CreateChunk(content, index, documentId, sourceFile, strategy, startPosition, endPosition) ==
  [id |-> documentId \o "_chunk_" \o ToString(index),
   content |-> Trim(content),
   metadata |-> [sourceFile |-> sourceFile, chunkIndex |-> index, totalChunks |-> 0,
                 startPosition |-> startPosition, endPosition |-> endPosition,
                 tokenCount |-> CountTokens(content), chunkingStrategy |-> strategy]]

\* a second pass that rewrites nothing
UpdateTotalChunksSkipped(chunks) == chunks

UpdateTotalChunks(chunks) ==
  [k \in 1..Len(chunks) |-> [chunks[k] EXCEPT !.metadata.totalChunks = Len(chunks)]]

\* the characters of the class [.!?]
IsTerminator(c) == c \in {".", "!", "?"}

RECURSIVE SplitFrom(_, _, _)
\* text.split(/[.!?]+/) from character i on, piece being the piece under way
SplitFrom(text, i, piece) ==
  IF i > Len(text) THEN <<piece>>
  ELSE IF IsTerminator(CharAt(text, i))
    THEN IF i > 1 /\ IsTerminator(CharAt(text, i - 1))
           THEN SplitFrom(text, i + 1, piece)
           ELSE <<piece>> \o SplitFrom(text, i + 1, "")
    ELSE SplitFrom(text, i + 1, piece \o CharAt(text, i))

\* text.split(/[.!?]+/).filter((s) => s.trim().length > 0)
SentencesOf(text) == SelectSeq(SplitFrom(text, 1, ""), LAMBDA s : Len(Trim(s)) > 0)

\* splitIntoSentences: split, trim each, keep the non-empty
SplitIntoSentences(text) ==
  LET pieces == SplitFrom(text, 1, "")
  IN SelectSeq([k \in 1..Len(pieces) |-> Trim(pieces[k])], LAMBDA s : Len(s) > 0)

RECURSIVE PackSentences(_, _, _, _, _, _, _, _)
\* sentenceBoundaryChunking's loop from sentences[k] on and its last push
PackSentences(sentences, k, chunks, currentChunk, startPosition, options, documentId, sourceFile) ==
  IF k > Len(sentences)
    THEN IF currentChunk # ""
           THEN Append(chunks, CreateChunk(currentChunk, Len(chunks), documentId, sourceFile,
                                           options.strategy, startPosition,
                                           startPosition + Len(currentChunk)))
           ELSE chunks
    ELSE LET trimmedSentence == Trim(sentences[k])
             potentialChunk ==
               currentChunk \o (IF currentChunk # "" THEN ". " ELSE "") \o trimmedSentence
         IN IF Len(trimmedSentence) = 0
              THEN PackSentences(sentences, k + 1, chunks, currentChunk, startPosition,
                                 options, documentId, sourceFile)
            ELSE IF Len(potentialChunk) <= options.maxChunkSize
              THEN PackSentences(sentences, k + 1, chunks, potentialChunk, startPosition,
                                 options, documentId, sourceFile)
            ELSE IF currentChunk # ""
              THEN PackSentences(sentences, k + 1,
                                 Append(chunks,
                                        CreateChunk(currentChunk, Len(chunks), documentId,
                                                    sourceFile, options.strategy,
                                                    startPosition,
                                                    startPosition + Len(currentChunk))),
                                 trimmedSentence, startPosition + Len(currentChunk),
                                 options, documentId, sourceFile)
            ELSE PackSentences(sentences, k + 1, chunks, trimmedSentence, startPosition,
                               options, documentId, sourceFile)

SentenceBoundaryChunking(text, options, documentId, sourceFile) ==
  UpdateTotalChunks(PackSentences(SentencesOf(text), 1, <<>>, "", 0, options, documentId,
                                  sourceFile))

\* a fallback that passes the strategy it falls back to
SemanticChunkingRetagged(text, options, documentId, sourceFile) ==
  SentenceBoundaryChunking(text, [options EXCEPT !.strategy = SentenceBoundary], documentId,
                           sourceFile)

\* the fallback to sentence boundary chunking
SemanticChunking(text, options, documentId, sourceFile) ==
  SentenceBoundaryChunking(text, options, documentId, sourceFile)

RECURSIVE PackTokenSentences(_, _, _, _, _, _, _, _, _)
\* tokenAwareChunking's loop from sentences[k] on and its last push
PackTokenSentences(sentences, k, chunks, currentChunk, currentTokenCount, startPosition, options, documentId, sourceFile) ==
  LET maxTokens == options.maxChunkSize \div CharsPerToken
      overlapTokens == options.overlapSize \div CharsPerToken
  IN IF k > Len(sentences)
       THEN IF Trim(currentChunk) # ""
              THEN Append(chunks, CreateChunk(Trim(currentChunk), Len(chunks), documentId,
                                              sourceFile, options.strategy, startPosition,
                                              startPosition + Len(currentChunk)))
              ELSE chunks
       ELSE LET sentence == sentences[k]
                sentenceTokens == CountTokens(sentence)
                pushed == Append(chunks,
                                 CreateChunk(Trim(currentChunk), Len(chunks), documentId,
                                             sourceFile, options.strategy, startPosition,
                                             startPosition + Len(currentChunk)))
                nextChunk ==
                  IF overlapTokens > 0
                    THEN GetLastNTokensAsText(currentChunk, overlapTokens) \o " " \o sentence
                    ELSE sentence
                nextCount ==
                  IF overlapTokens > 0 THEN CountTokens(nextChunk) ELSE sentenceTokens
            IN IF currentTokenCount + sentenceTokens > maxTokens /\ currentChunk # ""
                 THEN PackTokenSentences(sentences, k + 1, pushed, nextChunk, nextCount,
                                         startPosition + Len(nextChunk) - Len(sentence),
                                         options, documentId, sourceFile)
                 ELSE PackTokenSentences(sentences, k + 1, chunks,
                                         currentChunk
                                           \o (IF currentChunk # "" THEN " " ELSE "")
                                           \o sentence,
                                         currentTokenCount + sentenceTokens, startPosition,
                                         options, documentId, sourceFile)

TokenAwareChunking(text, options, documentId, sourceFile) ==
  UpdateTotalChunks(PackTokenSentences(SplitIntoSentences(text), 1, <<>>, "", 0, 0, options,
                                       documentId, sourceFile))

ChunksPending == [kind |-> "pending", chunks |-> <<>>]
ChunksReturned(chunks) == [kind |-> "returned", chunks |-> chunks]
ChunksThrown == [kind |-> "threw", chunks |-> <<>>]

\* chunkText: the switch; fixedSizeChunking runs its loop step by step
ChunkText ==
  /\ chkPc = "idle"
  /\ \E text \in ChunkTexts, options \in ChunkingOptions, documentId \in {"doc1", "doc2"} :
       /\ chkText' = text
       /\ chkOptions' = options
       /\ chkDocumentId' = documentId
       /\ CASE options.strategy = FixedSize ->
                 /\ chkPc' = "fixed"
                 /\ chkResult' = ChunksPending
            [] options.strategy = SentenceBoundary ->
                 /\ chkPc' = "done"
                 /\ chkResult' = ChunksReturned(
                      SentenceBoundaryChunking(text, options, documentId, SourceFile))
            [] options.strategy = Semantic ->
                 /\ chkPc' = "done"
                 /\ chkResult' = ChunksReturned(
                      SemanticChunking(text, options, documentId, SourceFile))
            [] options.strategy = TokenAware ->
                 /\ chkPc' = "done"
                 /\ chkResult' = ChunksReturned(
                      TokenAwareChunking(text, options, documentId, SourceFile))
            [] OTHER ->
                 /\ chkPc' = "done"
                 /\ chkResult' = ChunksThrown
  /\ chkI' = 0
  /\ chkChunks' = <<>>
  /\ ChunkFrame

\* one pass of fixedSizeChunking's for loop
FixedSizeStep ==
  /\ chkPc = "fixed"
  /\ chkI < Len(chkText)
  /\ Len(chkChunks) < MaxLoopPasses
  /\ chkI > -MaxLoopPasses
  /\ LET end == Min(chkI + chkOptions.maxChunkSize, Len(chkText))
         chunkContent == Slice(chkText, chkI, end)
     IN chkChunks' =
          IF Len(Trim(chunkContent)) = 0 THEN chkChunks
          ELSE Append(chkChunks,
                      CreateChunk(chunkContent, Len(chkChunks), chkDocumentId, SourceFile,
                                  chkOptions.strategy, chkI, end))
  /\ chkI' = chkI + (chkOptions.maxChunkSize - chkOptions.overlapSize)
  /\ UNCHANGED <<chkPc, chkText, chkOptions, chkDocumentId, chkResult>>
  /\ ChunkFrame

\* the loop is over: return this.updateTotalChunks(chunks)
FixedSizeReturn ==
  /\ chkPc = "fixed"
  /\ chkI >= Len(chkText)
  /\ chkResult' = ChunksReturned(UpdateTotalChunks(chkChunks))
  /\ chkPc' = "done"
  /\ UNCHANGED <<chkText, chkOptions, chkDocumentId, chkI, chkChunks>>
  /\ ChunkFrame

ChunkNext ==
  \/ ChunkText
  \/ FixedSizeStep
  \/ FixedSizeReturn

\* chunkText not called
ChunkIdle ==
  /\ chkPc = "idle"
  /\ chkText = ""
  /\ chkOptions = [strategy |-> "", maxChunkSize |-> 0, overlapSize |-> 0]
  /\ chkDocumentId = ""
  /\ chkI = 0
  /\ chkChunks = <<>>
  /\ chkResult = ChunksPending

(***************************************************************************)
(* TextPreprocessingService.  A text is the sequence of its characters,    *)
(* each a string: itself for an ASCII character, its code point otherwise. *)
(***************************************************************************)
NBSP == "U+00A0"
EnQuad == "U+2000"
ZWSP == "U+200B"
ZWNJ == "U+200C"
ZWJ == "U+200D"
BOM == "U+FEFF"
LeftDoubleQuote == "U+201C"
RightDoubleQuote == "U+201D"
LeftSingleQuote == "U+2018"
RightSingleQuote == "U+2019"
EnDash == "U+2013"
EmDash == "U+2014"
Ellipsis == "U+2026"

\* the characters that String.prototype.trim strips, among the above
IsTrimmed(c) == c \in {" ", "\t", "\n", "\r", NBSP, EnQuad, BOM}

RECURSIVE ReplaceChars(_, _, _)
\* text.replace(/[set]/g, replacement)
ReplaceChars(text, set, replacement) ==
  IF text = <<>> THEN <<>>
  ELSE (IF Head(text) \in set THEN replacement ELSE <<Head(text)>>)
       \o ReplaceChars(Tail(text), set, replacement)

RECURSIVE ReplaceSequence(_, _, _)
\* text.replace(/pattern/g, replacement) for a pattern of literal characters
ReplaceSequence(text, pattern, replacement) ==
  IF text = <<>> THEN <<>>
  ELSE IF Len(pattern) <= Len(text) /\ SubSeq(text, 1, Len(pattern)) = pattern
    THEN replacement
         \o ReplaceSequence(SubSeq(text, Len(pattern) + 1, Len(text)), pattern, replacement)
    ELSE <<Head(text)>> \o ReplaceSequence(Tail(text), pattern, replacement)

RECURSIVE RunLength(_, _)
\* the number of c's that text starts with
RunLength(text, c) ==
  IF text # <<>> /\ Head(text) = c THEN 1 + RunLength(Tail(text), c) ELSE 0

RECURSIVE ReplaceRuns(_, _, _, _)
\* text.replace(/c{least,}/g, replacement)
ReplaceRuns(text, c, least, replacement) ==
  IF text = <<>> THEN <<>>
  ELSE LET n == RunLength(text, c)
       IN IF n >= least
            THEN replacement
                 \o ReplaceRuns(SubSeq(text, n + 1, Len(text)), c, least, replacement)
          ELSE IF n > 0
            THEN SubSeq(text, 1, n)
                 \o ReplaceRuns(SubSeq(text, n + 1, Len(text)), c, least, replacement)
          ELSE <<Head(text)>> \o ReplaceRuns(Tail(text), c, least, replacement)

\* /\u2000-\u200B/ is no character class: it matches the three characters
\* U+2000, "-", U+200B in a row
NormalizeWhitespace(text) ==
  ReplaceRuns(
    ReplaceSequence(
      ReplaceChars(ReplaceChars(text, {"\t"}, <<" ">>), {NBSP}, <<" ">>),
      <<EnQuad, "-", ZWSP>>, <<" ">>),
    " ", 1, <<" ">>)

NormalizeLineBreaks(text) ==
  ReplaceRuns(
    ReplaceChars(ReplaceSequence(text, <<"\r", "\n">>, <<"\n">>), {"\r"}, <<"\n">>),
    "\n", 3, <<"\n", "\n">>)

\* /[^\x00-\x7F\u0080-\uFFFF]/ matches no UTF-16 code unit
CleanSpecialCharacters(text) ==
  ReplaceChars(
    ReplaceChars(
      ReplaceChars(
        ReplaceChars(
          ReplaceChars(text, {ZWSP, ZWNJ, ZWJ, BOM}, <<>>),
          {LeftDoubleQuote, RightDoubleQuote}, <<"\"">>),
        {LeftSingleQuote, RightSingleQuote}, <<"'">>),
      {EnDash, EmDash}, <<"-">>),
    {Ellipsis}, <<".", ".", ".">>)

\* the two classes hold the straight quotes only
NormalizeQuotes(text) ==
  ReplaceChars(ReplaceChars(text, {"\""}, <<"\"">>), {"'"}, <<"'">>)

RECURSIVE SplitLines(_, _)
\* text.split('\n'), line being the line under way
SplitLines(text, line) ==
  IF text = <<>> THEN <<line>>
  ELSE IF Head(text) = "\n" THEN <<line>> \o SplitLines(Tail(text), <<>>)
  ELSE SplitLines(Tail(text), Append(line, Head(text)))

RECURSIVE TrimTextStart(_)
TrimTextStart(text) ==
  IF text # <<>> /\ IsTrimmed(Head(text)) THEN TrimTextStart(Tail(text)) ELSE text

RECURSIVE TrimTextEnd(_)
TrimTextEnd(text) ==
  IF text # <<>> /\ IsTrimmed(text[Len(text)])
    THEN TrimTextEnd(SubSeq(text, 1, Len(text) - 1))
    ELSE text

\* String.prototype.trim on a text
TrimText(text) == TrimTextEnd(TrimTextStart(text))

RECURSIVE JoinLines(_)
\* lines.join('\n')
JoinLines(lines) ==
  IF lines = <<>> THEN <<>>
  ELSE IF Len(lines) = 1 THEN lines[1]
  ELSE lines[1] \o <<"\n">> \o JoinLines(Tail(lines))

RemoveEmptyLines(text) ==
  LET lines == SplitLines(text, <<>>)
      trimmed == [k \in 1..Len(lines) |-> TrimText(lines[k])]
  IN TrimText(JoinLines(SelectSeq(trimmed, LAMBDA line : Len(line) > 0)))

\* preprocess: the five steps in order
Preprocess(text) ==
  RemoveEmptyLines(
    NormalizeQuotes(
      CleanSpecialCharacters(
        NormalizeLineBreaks(
          NormalizeWhitespace(text)))))

\* the characters of the input texts
TextChars == {"a", " ", "\n", "\r", ZWSP, Ellipsis, LeftDoubleQuote}

\* the texts of at most MaxTextLen characters
InputTexts == UNION {[1..n -> TextChars] : n \in 0..MaxTextLen}

\* preprocess called on the input, then on what the call before returned
PreprocessCall ==
  /\ Len(prepPasses) < 2
  /\ prepPasses' = Append(prepPasses,
                          Preprocess(IF prepPasses = <<>> THEN prepInput
                                     ELSE prepPasses[Len(prepPasses)]))
  /\ UNCHANGED prepInput
  /\ PrepFrame

PrepNext == PreprocessCall

\* the text to preprocess, preprocess not yet called
PrepInputs ==
  /\ prepInput \in InputTexts
  /\ prepPasses = <<>>

\* preprocess not called
PrepIdle ==
  /\ prepInput = <<>>
  /\ prepPasses = <<>>

(***************************************************************************)
(* EmbeddingService.generateEmbeddings                                     *)
(***************************************************************************)
\* const batchSize = 100
EmbeddingBatchSize == 100

\* the lengths of the texts lists: few texts, and the lengths around each
\* multiple of the batch size
TextsLengths ==
  {0, 1, 2} \cup {b * EmbeddingBatchSize + d : b \in 1..MaxSubBatches, d \in {-1, 0, 1}}

\* the list of n texts of which those at the positions in blanks are blank
TextsList(n, blanks) ==
  [k \in 1..n |-> IF k \in blanks THEN (IF k % 2 = 0 THEN "" ELSE "   ")
                  ELSE "text " \o ToString(k)]

\* the positions of the blank texts of a list of n texts
BlankPositions(n) ==
  {{}, 1..n} \cup {b \cap (1..n) : b \in {{1}, {2}, {1, 2}, {n}, {1, n}, {2, n - 1}}}

\* the vector the provider gives for a text
ProviderEmbedding(text) == <<"embedding of", text>>

\* texts.filter((text) => text && text.trim().length > 0)
ValidTexts(texts) == SelectSeq(texts, LAMBDA text : Len(Trim(text)) > 0)

\* a slice that is always the first batch
SubBatchFirst(validTexts, i) ==
  SubSeq(validTexts, 1, Min(EmbeddingBatchSize, Len(validTexts)))

\* validTexts.slice(i, i + batchSize)
SubBatch(validTexts, i) ==
  SubSeq(validTexts, i + 1, Min(i + EmbeddingBatchSize, Len(validTexts)))

EmbeddingsPending == [kind |-> "pending", value |-> <<>>, message |-> ""]
EmbeddingsReturned(value) == [kind |-> "returned", value |-> value, message |-> ""]
EmbeddingsThrown(message) == [kind |-> "threw", value |-> <<>>, message |-> message]

NoValidTextsError == "No valid texts provided for embedding generation"
NoEmbeddingDataError == "Failed to generate embeddings: No embedding data received from OpenAI"
EmbeddingsProviderError == "Failed to generate embeddings: provider error"

\* generateEmbeddings up to its first await of the provider
GenerateEmbeddings ==
  /\ embPc = "idle"
  /\ \E n \in TextsLengths : \E blanks \in BlankPositions(n) :
       LET texts == TextsList(n, blanks)
           validTexts == ValidTexts(texts)
       IN /\ embTexts' = texts
          /\ IF Len(texts) = 0
               THEN /\ embPc' = "done"
                    /\ embResult' = EmbeddingsReturned(<<>>)
                    /\ UNCHANGED <<embValid, embRequests>>
             ELSE IF Len(validTexts) = 0
               THEN /\ embPc' = "done"
                    /\ embResult' = EmbeddingsThrown(NoValidTextsError)
                    /\ UNCHANGED <<embValid, embRequests>>
             ELSE /\ embPc' = "awaiting"
                  /\ embValid' = validTexts
                  /\ embRequests' = Append(embRequests, SubBatch(validTexts, 0))
                  /\ UNCHANGED embResult
  /\ UNCHANGED <<embI, embEmbeddings>>
  /\ EmbFrame

\* the provider resolves with one embedding for each text of the batch, in
\* the order of the batch: they are pushed, and the next batch is sent or
\* the embeddings are returned
EmbeddingsResolve ==
  /\ embPc = "awaiting"
  /\ LET batch == embRequests[Len(embRequests)]
         data == [k \in 1..Len(batch) |-> ProviderEmbedding(batch[k])]
         i == embI + EmbeddingBatchSize
     IN /\ embEmbeddings' = embEmbeddings \o data
        /\ embI' = i
        /\ IF i < Len(embValid)
             THEN /\ embRequests' = Append(embRequests, SubBatch(embValid, i))
                  /\ UNCHANGED <<embPc, embResult>>
             ELSE /\ embPc' = "done"
                  /\ embResult' = EmbeddingsReturned(embEmbeddings \o data)
                  /\ UNCHANGED embRequests
  /\ UNCHANGED <<embTexts, embValid>>
  /\ EmbFrame

\* the provider resolves without data: the error thrown in the loop is caught
\* and wrapped
EmbeddingsNoData ==
  /\ embPc = "awaiting"
  /\ embResult' = EmbeddingsThrown(NoEmbeddingDataError)
  /\ embPc' = "done"
  /\ UNCHANGED <<embTexts, embValid, embI, embEmbeddings, embRequests>>
  /\ EmbFrame

\* the provider rejects: the error is caught and wrapped
EmbeddingsReject ==
  /\ embPc = "awaiting"
  /\ embResult' = EmbeddingsThrown(EmbeddingsProviderError)
  /\ embPc' = "done"
  /\ UNCHANGED <<embTexts, embValid, embI, embEmbeddings, embRequests>>
  /\ EmbFrame

EmbNext ==
  \/ GenerateEmbeddings
  \/ EmbeddingsResolve
  \/ EmbeddingsNoData
  \/ EmbeddingsReject

\* generateEmbeddings not called
EmbIdle ==
  /\ embPc = "idle"
  /\ embTexts = <<>>
  /\ embValid = <<>>
  /\ embI = 0
  /\ embEmbeddings = <<>>
  /\ embRequests = <<>>
  /\ embResult = EmbeddingsPending

(***************************************************************************)
(* AdminService, DocumentsController and DocumentsService over the         *)
(* document store and the vector collection, one operation at a time       *)
(***************************************************************************)
\* the id the document repository gives the k-th document
StoreId(k) == "document" \o ToString(k)
StoreIds == {StoreId(k) : k \in 1..MaxAdminDocs}

UploadTitles == {"", "Opening hours"}
UploadContents == {"", "   ", "We are open 9 AM to 6 PM."}
\* ReindexDto
ReindexDtos ==
  {[fullReindex |-> TRUE, documentIds |-> <<>>]}
  \cup {[fullReindex |-> FALSE, documentIds |-> ids] :
          ids \in {<<>>, <<StoreId(1)>>, <<StoreId(1), StoreId(2)>>}}

AdminPending == [kind |-> "pending", message |-> ""]
AdminReturned(message) == [kind |-> "returned", message |-> message]
AdminThrown(message) == [kind |-> "threw", message |-> message]

NoOperation == [name |-> "none", id |-> "", dto |-> <<>>]
Operation(name, id, dto) == [name |-> name, id |-> id, dto |-> dto]

\* no operation is running
AdminFree == admPc \in {"idle", "done"}

\* an awaited call of the document store, the provider or the vector store
\* rejects: the operation throws
AdminThrows(message) ==
  /\ admPc' = "done"
  /\ admResult' = AdminThrown(message)
  /\ UNCHANGED <<documentStore, points, collectionExists, admOp, admIdx, admNextId>>
  /\ AdminFrame

\* AdminService.uploadTextDocument up to the await of documentsService.create
UploadTextDocument ==
  /\ AdminFree
  /\ admNextId <= MaxAdminDocs
  /\ \E title \in UploadTitles, content \in UploadContents :
       /\ admOp' = Operation("uploadTextDocument", "", [title |-> title, content |-> content])
       /\ IF content = ""
            THEN /\ admPc' = "done"
                 /\ admResult' = AdminThrown("Content is required for text documents")
          ELSE IF title = ""
            THEN /\ admPc' = "done"
                 /\ admResult' = AdminThrown("Title is required for text documents")
          ELSE /\ admPc' = "creating"
               /\ admResult' = AdminPending
  /\ UNCHANGED <<documentStore, points, collectionExists, admIdx, admNextId>>
  /\ AdminFrame

\* documentsService.create resolves: generateEmbedding is awaited
CreateResolves ==
  /\ admPc = "creating"
  /\ documentStore' = documentStore \cup {StoreId(admNextId)}
  /\ admOp' = [admOp EXCEPT !.id = StoreId(admNextId)]
  /\ admNextId' = admNextId + 1
  /\ admPc' = "embedding"
  /\ UNCHANGED <<points, collectionExists, admIdx, admResult>>
  /\ AdminFrame

CreateFails ==
  /\ admPc = "creating"
  /\ AdminThrows("document store error")

\* generateEmbedding resolves: vectorService.storeDocument is awaited
UploadEmbeddingResolves ==
  /\ admPc = "embedding"
  /\ ~BlankText(admOp.dto.content)
  /\ admPc' = "storing"
  /\ UNCHANGED <<documentStore, points, collectionExists, admOp, admIdx, admNextId, admResult>>
  /\ AdminFrame

UploadEmbeddingFails ==
  /\ admPc = "embedding"
  /\ AdminThrows(IF BlankText(admOp.dto.content) THEN EmptyTextError
                 ELSE EmbeddingProviderError)

\* storeDocument's upsert resolves: the point is in the collection
StoreDocumentResolves ==
  /\ admPc = "storing"
  /\ collectionExists
  /\ points' = points \cup {admOp.id}
  /\ admPc' = "done"
  /\ admResult' = AdminReturned("Text document created and indexed successfully")
  /\ UNCHANGED <<documentStore, collectionExists, admOp, admIdx, admNextId>>
  /\ AdminFrame

StoreDocumentFails ==
  /\ admPc = "storing"
  /\ AdminThrows("store error")

\* AdminService.deleteDocument up to the await of vectorService.deleteDocument
AdminDeleteDocument ==
  /\ AdminFree
  /\ \E id \in StoreIds : admOp' = Operation("deleteDocument", id, <<>>)
  /\ admPc' = "deleting"
  /\ admResult' = AdminPending
  /\ UNCHANGED <<documentStore, points, collectionExists, admIdx, admNextId>>
  /\ AdminFrame

\* vectorService.deleteDocument resolves: documentsService.remove is awaited
VectorDeleteResolves ==
  /\ admPc = "deleting"
  /\ collectionExists
  /\ points' = points \ {admOp.id}
  /\ admPc' = "removing"
  /\ UNCHANGED <<documentStore, collectionExists, admOp, admIdx, admNextId, admResult>>
  /\ AdminFrame

VectorDeleteFails ==
  /\ admPc = "deleting"
  /\ AdminThrows("store error")

\* DocumentsController.remove: documentsService.remove is awaited
DocumentsRemove ==
  /\ AdminFree
  /\ \E id \in StoreIds : admOp' = Operation("documentsRemove", id, <<>>)
  /\ admPc' = "removing"
  /\ admResult' = AdminPending
  /\ UNCHANGED <<documentStore, points, collectionExists, admIdx, admNextId>>
  /\ AdminFrame

\* documentsService.remove: findOne finds the document, the repository
\* removes it
RemoveResolves ==
  /\ admPc = "removing"
  /\ admOp.id \in documentStore
  /\ documentStore' = documentStore \ {admOp.id}
  /\ admPc' = "done"
  /\ admResult' = AdminReturned(IF admOp.name = "deleteDocument"
                                  THEN "Document deleted successfully" ELSE "")
  /\ UNCHANGED <<points, collectionExists, admOp, admIdx, admNextId>>
  /\ AdminFrame

\* documentsService.remove: findOne throws NotFoundException, or the
\* repository rejects
RemoveFails ==
  /\ admPc = "removing"
  /\ AdminThrows(IF admOp.id \in documentStore THEN "document store error"
                 ELSE "Document with ID " \o admOp.id \o " not found")

\* AdminService.reindexVectorDatabase up to its first await
ReindexVectorDatabase ==
  /\ AdminFree
  /\ \E reindexDto \in ReindexDtos :
       /\ admOp' = Operation("reindexVectorDatabase", "", reindexDto)
       /\ IF reindexDto.fullReindex
            THEN /\ admPc' = "dropping"
                 /\ admResult' = AdminPending
          ELSE IF Len(reindexDto.documentIds) > 0
            THEN /\ admPc' = "reindexing"
                 /\ admResult' = AdminPending
          ELSE /\ admPc' = "done"
               /\ admResult' =
                    AdminReturned("Vector database reindexing completed successfully")
  /\ admIdx' = 1
  /\ UNCHANGED <<documentStore, points, collectionExists, admNextId>>
  /\ AdminFrame

\* reindexAllDocuments: deleteCollection resolves, ensureCollectionExists is
\* awaited
DeleteCollectionResolves ==
  /\ admPc = "dropping"
  /\ collectionExists' = FALSE
  /\ points' = {}
  /\ admPc' = "ensuring"
  /\ UNCHANGED <<documentStore, admOp, admIdx, admNextId, admResult>>
  /\ AdminFrame

DeleteCollectionFails ==
  /\ admPc = "dropping"
  /\ AdminThrows("store error")

\* ensureCollectionExists resolves: the collection exists, created empty if
\* it was absent; reindexVectorDatabase returns success
EnsureCollectionResolves ==
  /\ admPc = "ensuring"
  /\ collectionExists' = TRUE
  /\ admPc' = "done"
  /\ admResult' = AdminReturned("Vector database reindexing completed successfully")
  /\ UNCHANGED <<documentStore, points, admOp, admIdx, admNextId>>
  /\ AdminFrame

EnsureCollectionFails ==
  /\ admPc = "ensuring"
  /\ AdminThrows("store error")

\* one pass of the loop over reindexDto.documentIds: findOne, generateEmbedding
\* and updateDocument resolve
ReindexDocumentResolves ==
  /\ admPc = "reindexing"
  /\ admOp.dto.documentIds[admIdx] \in documentStore
  /\ collectionExists
  /\ points' = points \cup {admOp.dto.documentIds[admIdx]}
  /\ admIdx' = admIdx + 1
  /\ IF admIdx + 1 > Len(admOp.dto.documentIds)
       THEN /\ admPc' = "done"
            /\ admResult' =
                 AdminReturned("Vector database reindexing completed successfully")
       ELSE UNCHANGED <<admPc, admResult>>
  /\ UNCHANGED <<documentStore, collectionExists, admOp, admNextId>>
  /\ AdminFrame

\* one of the three rejects (findOne with NotFoundException when the document
\* is not in the store)
ReindexDocumentFails ==
  /\ admPc = "reindexing"
  /\ AdminThrows(IF admOp.dto.documentIds[admIdx] \in documentStore THEN "store error"
                 ELSE "Document with ID " \o admOp.dto.documentIds[admIdx] \o " not found")

AdminNext ==
  \/ UploadTextDocument
  \/ CreateResolves
  \/ CreateFails
  \/ UploadEmbeddingResolves
  \/ UploadEmbeddingFails
  \/ StoreDocumentResolves
  \/ StoreDocumentFails
  \/ AdminDeleteDocument
  \/ VectorDeleteResolves
  \/ VectorDeleteFails
  \/ DocumentsRemove
  \/ RemoveResolves
  \/ RemoveFails
  \/ ReindexVectorDatabase
  \/ DeleteCollectionResolves
  \/ DeleteCollectionFails
  \/ EnsureCollectionResolves
  \/ EnsureCollectionFails
  \/ ReindexDocumentResolves
  \/ ReindexDocumentFails

\* the document store empty, the collection created by onModuleInit and empty
AdminIdle ==
  /\ documentStore = {}
  /\ points = {}
  /\ collectionExists = TRUE
  /\ admPc = "idle"
  /\ admOp = NoOperation
  /\ admIdx = 1
  /\ admNextId = 1
  /\ admResult = AdminPending

(***************************************************************************)
(* AdminService: uploadTextDocument, deleteDocument(id) and                *)
(* reindexVectorDatabase({documentIds: [id]}) called at the same time, id  *)
(* being the id the upload's document gets.  Each call is a task that      *)
(* runs from one await to the next; the tasks interleave at the awaits.    *)
(***************************************************************************)
Tasks == {"upload", "delete", "reindex"}

\* the id of the document the upload creates
TargetId == StoreId(1)

\* task is at the await named by pc
At(task, pc) == taskPc[task] = pc
\* task goes on to the await named by pc
Goto(task, pc) == taskPc' = [taskPc EXCEPT ![task] = pc]

\* uploadTextDocument, its dto valid, up to the await of documentsService.create
UploadBegins ==
  /\ At("upload", "idle")
  /\ Goto("upload", "creating")
  /\ UNCHANGED <<documentStore, points>>
  /\ TaskFrame

\* create resolves: generateEmbedding is awaited
UploadCreates ==
  /\ At("upload", "creating")
  /\ documentStore' = documentStore \cup {TargetId}
  /\ Goto("upload", "embedding")
  /\ UNCHANGED points
  /\ TaskFrame

\* generateEmbedding resolves: vectorService.storeDocument is awaited
UploadEmbeds ==
  /\ At("upload", "embedding")
  /\ Goto("upload", "storing")
  /\ UNCHANGED <<documentStore, points>>
  /\ TaskFrame

\* storeDocument resolves: the upload returns
UploadStores ==
  /\ At("upload", "storing")
  /\ points' = points \cup {TargetId}
  /\ Goto("upload", "done")
  /\ UNCHANGED documentStore
  /\ TaskFrame

\* the call the upload awaits rejects: the upload throws
UploadAborts ==
  /\ taskPc["upload"] \in {"creating", "embedding", "storing"}
  /\ Goto("upload", "done")
  /\ UNCHANGED <<documentStore, points>>
  /\ TaskFrame

\* deleteDocument(id) up to the await of vectorService.deleteDocument
DeleteBegins ==
  /\ At("delete", "idle")
  /\ Goto("delete", "deleting")
  /\ UNCHANGED <<documentStore, points>>
  /\ TaskFrame

\* vectorService.deleteDocument resolves: documentsService.remove is awaited
DeleteDropsPoint ==
  /\ At("delete", "deleting")
  /\ points' = points \ {TargetId}
  /\ Goto("delete", "removing")
  /\ UNCHANGED documentStore
  /\ TaskFrame

\* documentsService.remove finds the document and removes it: the delete returns
DeleteRemovesRow ==
  /\ At("delete", "removing")
  /\ TargetId \in documentStore
  /\ documentStore' = documentStore \ {TargetId}
  /\ Goto("delete", "done")
  /\ UNCHANGED points
  /\ TaskFrame

\* the call the delete awaits rejects (remove also when the document is not
\* found): the delete throws
DeleteAborts ==
  /\ taskPc["delete"] \in {"deleting", "removing"}
  /\ Goto("delete", "done")
  /\ UNCHANGED <<documentStore, points>>
  /\ TaskFrame

\* reindexVectorDatabase({documentIds: [id]}) up to the await of findOne
ReindexBegins ==
  /\ At("reindex", "idle")
  /\ Goto("reindex", "finding")
  /\ UNCHANGED <<documentStore, points>>
  /\ TaskFrame

\* findOne resolves with the document: generateEmbedding is awaited
ReindexReads ==
  /\ At("reindex", "finding")
  /\ TargetId \in documentStore
  /\ Goto("reindex", "embedding")
  /\ UNCHANGED <<documentStore, points>>
  /\ TaskFrame

\* generateEmbedding resolves: vectorService.updateDocument is awaited
ReindexEmbeds ==
  /\ At("reindex", "embedding")
  /\ Goto("reindex", "updating")
  /\ UNCHANGED <<documentStore, points>>
  /\ TaskFrame

\* updateDocument resolves, an upsert: the reindex returns
ReindexUpserts ==
  /\ At("reindex", "updating")
  /\ points' = points \cup {TargetId}
  /\ Goto("reindex", "done")
  /\ UNCHANGED documentStore
  /\ TaskFrame

\* the call the reindex awaits rejects (findOne also when the document is not
\* found): the reindex throws
ReindexAborts ==
  /\ taskPc["reindex"] \in {"finding", "embedding", "updating"}
  /\ Goto("reindex", "done")
  /\ UNCHANGED <<documentStore, points>>
  /\ TaskFrame

TasksNext ==
  \/ UploadBegins
  \/ UploadCreates
  \/ UploadEmbeds
  \/ UploadStores
  \/ UploadAborts
  \/ DeleteBegins
  \/ DeleteDropsPoint
  \/ DeleteRemovesRow
  \/ DeleteAborts
  \/ ReindexBegins
  \/ ReindexReads
  \/ ReindexEmbeds
  \/ ReindexUpserts
  \/ ReindexAborts

\* none of the three calls made
TasksIdle == taskPc = [task \in Tasks |-> "idle"]

(***************************************************************************)
(* RagService.uploadDocumentsBatch                                         *)
(***************************************************************************)
\* interface DocumentUpload: the contents the documents may have
UploadBatchContents == {"", "  ", "alpha", "beta"}

\* the lists of n documents, the k-th having the k-th id
UploadBatchesOfLen(n) ==
  {l \in [1..n -> [id : {DocIds[k] : k \in 1..n}, content : UploadBatchContents]] :
     \A k \in 1..n : l[k].id = DocIds[k]}

UploadBatches == UNION {UploadBatchesOfLen(n) : n \in 0..MaxUploadDocs}

\* documents.map((doc) => doc.content)
ContentsOf(documents) == [k \in 1..Len(documents) |-> documents[k].content]

\* what generateEmbeddings resolves to when the provider answers every
\* sub-batch: one embedding for each valid text, in their order
GeneratedEmbeddings(texts) ==
  [k \in 1..Len(ValidTexts(texts)) |-> ProviderEmbedding(ValidTexts(texts)[k])]

\* documents.map((doc, index) => ({id, content, embedding: embeddings[index], ...})):
\* embeddings[index] is undefined from embeddings.length on
VectorDocuments(documents, embeddings) ==
  [k \in 1..Len(documents) |->
     [id |-> documents[k].id, content |-> documents[k].content,
      hasEmbedding |-> k <= Len(embeddings),
      embedding |-> IF k <= Len(embeddings) THEN embeddings[k] ELSE <<>>]]

UploadPending == [kind |-> "pending", message |-> ""]
UploadReturned == [kind |-> "returned", message |-> ""]
UploadThrown(message) == [kind |-> "threw", message |-> message]

\* uploadDocumentsBatch up to the provider's answer: generateEmbeddings returns
\* [] for no texts and throws when no text is valid; storeDocumentsBatch
\* returns at once for no documents
UploadDocumentsBatch ==
  /\ upPc = "idle"
  /\ \E documents \in UploadBatches :
       /\ upDocs' = documents
       /\ IF Len(documents) = 0
            THEN /\ upPc' = "done"
                 /\ upResult' = UploadReturned
          ELSE IF Len(ValidTexts(ContentsOf(documents))) = 0
            THEN /\ upPc' = "done"
                 /\ upResult' = UploadThrown(NoValidTextsError)
          ELSE /\ upPc' = "embedding"
               /\ upResult' = UploadPending
  /\ UNCHANGED <<upVectorDocs, upPoints>>
  /\ UploadFrame

\* generateEmbeddings resolves: vectorDocuments is made and given to
\* storeDocumentsBatch, which checks it before any request
BatchEmbeddingsResolve ==
  /\ upPc = "embedding"
  /\ LET vectorDocuments ==
           VectorDocuments(upDocs, GeneratedEmbeddings(ContentsOf(upDocs)))
     IN /\ upVectorDocs' = vectorDocuments
        /\ IF Len(InvalidDocs(vectorDocuments)) > 0
             THEN /\ upPc' = "done"
                  /\ upResult' = UploadThrown(ToString(Len(InvalidDocs(vectorDocuments)))
                                                \o " documents missing embeddings")
             ELSE /\ upPc' = "storing"
                  /\ UNCHANGED upResult
  /\ UNCHANGED <<upDocs, upPoints>>
  /\ UploadFrame

\* generateEmbeddings rejects: the catch block rethrows
BatchEmbeddingsReject ==
  /\ upPc = "embedding"
  /\ upPc' = "done"
  /\ upResult' = UploadThrown(EmbeddingsProviderError)
  /\ UNCHANGED <<upDocs, upVectorDocs, upPoints>>
  /\ UploadFrame

\* storeDocumentsBatch resolves: every point is in the store
BatchStoreResolves ==
  /\ upPc = "storing"
  /\ upPoints' = {PointOf(upVectorDocs[k]) : k \in DOMAIN upVectorDocs}
  /\ upPc' = "done"
  /\ upResult' = UploadReturned
  /\ UNCHANGED <<upDocs, upVectorDocs>>
  /\ UploadFrame

\* storeDocumentsBatch rejects, its retries exhausted, the one sub-batch (at most
\* 100 documents) not stored: the catch block rethrows
BatchStoreFails ==
  /\ upPc = "storing"
  /\ upPc' = "done"
  /\ upResult' = UploadThrown(SearchError)
  /\ UNCHANGED <<upDocs, upVectorDocs, upPoints>>
  /\ UploadFrame

UploadNext ==
  \/ UploadDocumentsBatch
  \/ BatchEmbeddingsResolve
  \/ BatchEmbeddingsReject
  \/ BatchStoreResolves
  \/ BatchStoreFails

\* uploadDocumentsBatch not called, the store empty
UploadIdle ==
  /\ upPc = "idle"
  /\ upDocs = <<>>
  /\ upVectorDocs = <<>>
  /\ upPoints = {}
  /\ upResult = UploadPending

\* the components other than VectorService and LLMService at rest
RestIdle ==
  OptIdle /\ RagIdle /\ ChunkIdle /\ PrepIdle /\ EmbIdle /\ AdminIdle /\ UploadIdle /\ TasksIdle

\* VectorService at rest
VSIdle ==
  /\ maxRetries = DefaultMaxRetries
  /\ retryDelay = DefaultRetryDelay
  /\ vectorSize = DefaultVectorSize
  /\ vsPc = "idle"
  /\ vsOp = "none"
  /\ vsDocs = <<>>
  /\ vsBatchSize = DefaultBatchSize
  /\ failAt = {}
  /\ storeResponse = <<>>
  /\ attempt = 0
  /\ batchPos = 0
  /\ storeCalls = 0
  /\ upserts = <<>>
  /\ waits = <<>>
  /\ lastError = 0
  /\ vsResult = NoResult
  /\ vsCollection = TRUE

\* LLMService at rest, with the default configuration
LLMIdle ==
  /\ contextWindowSize = DefaultContextWindowSize
  /\ maxDocuments = DefaultMaxDocuments
  /\ llmPc = "idle"
  /\ llmQuery = ""
  /\ llmDocs = <<>>
  /\ llmOptions = [maxTokens |-> 0, temperature |-> 0, systemPrompt |-> "",
                   includeSourceInfo |-> FALSE]
  /\ llmRequests = <<>>
  /\ llmOutcome = [kind |-> "none"]
  /\ llmResult = PendingAnswer
  /\ ctxPc = "idle"
  /\ ctxDocs = <<>>
  /\ ctxResult = ""

\* the operations of VectorService, one call from construction
VectorInit == VSInit /\ LLMIdle /\ RestIdle
SpecVector == VectorInit /\ [][VSNext]_vars

\* generateAnswer, one call
AnswerInit == VSIdle /\ LLMInit /\ RestIdle
SpecLLM == AnswerInit /\ [][LLMNext]_vars

\* buildContext, one call
SpecContext == AnswerInit /\ [][ContextNext]_vars

\* optimizeContextForTokenLimit, one call
TokensInit == VSIdle /\ LLMIdle /\ RestIdle
SpecTokens == TokensInit /\ [][TokensNext]_vars

\* one query through RagService
RagInit == VSIdle /\ LLMIdle /\ RestIdle
SpecRag == RagInit /\ [][RagNext]_vars

\* one call of chunkText
ChunkInit == VSIdle /\ LLMIdle /\ RestIdle
SpecChunk == ChunkInit /\ [][ChunkNext]_vars
\* chunkText is synchronous from its switch on: a loop that can make a pass
\* makes it, a loop that is over returns
SpecChunkFair ==
  ChunkInit /\ [][ChunkNext]_vars /\ WF_vars(FixedSizeStep) /\ WF_vars(FixedSizeReturn)

\* the three admin calls, interleaved at their awaits
TasksInit == VSIdle /\ LLMIdle /\ RestIdle
SpecTasks == TasksInit /\ [][TasksNext]_vars

\* one call of uploadDocumentsBatch
UploadInit == VSIdle /\ LLMIdle /\ RestIdle
SpecUpload == UploadInit /\ [][UploadNext]_vars

\* preprocess applied twice to a text
PrepInit ==
  VSIdle /\ LLMIdle /\ OptIdle /\ RagIdle /\ ChunkIdle /\ EmbIdle /\ AdminIdle /\ UploadIdle
    /\ TasksIdle /\ PrepInputs
SpecPrep == PrepInit /\ [][PrepNext]_vars

\* one call of generateEmbeddings
EmbInit == VSIdle /\ LLMIdle /\ RestIdle
SpecEmb == EmbInit /\ [][EmbNext]_vars

\* the operations on documents, one after the other
AdminInit == VSIdle /\ LLMIdle /\ RestIdle
SpecAdmin == AdminInit /\ [][AdminNext]_vars

(***************************************************************************)
(* Claims on VectorService, under SpecVector                               *)
(***************************************************************************)
\* the operation went into executeWithRetry
InRetry == vsOp \in RetriedOps /\ attempt >= 1

\* Math.ceil(documents.length / batchSize)
SubBatchCount == (Len(vsDocs) + vsBatchSize - 1) \div vsBatchSize

\* the requests one failure-free attempt of the operation sends
CallsPerAttempt == IF vsOp = "storeDocumentsBatch" THEN SubBatchCount ELSE 1

C2_ExhaustionThrowsLast ==
  (InRetry /\ (1..maxRetries) \subseteq failAt) =>
    /\ storeCalls <= maxRetries
    /\ vsResult.kind # "ok"
    /\ (vsPc = "done") =>
         /\ storeCalls = maxRetries
         /\ vsResult.kind = "error"
         /\ vsResult.call = maxRetries

C2_Witness ==
  /\ vsPc = "done"
  /\ vsOp = "searchSimilarDocuments"
  /\ maxRetries = 3
  /\ {1, 2, 3} \subseteq failAt
  /\ storeCalls = 3
  /\ vsResult.kind = "error"
  /\ vsResult.call = 3

\* C3: the wait after failed attempt k (k < maxRetries) is retryDelay * 2^(k-1);
\* waits happen only between two attempts: a run of n attempts holds n - 1
\* waits, and none follows the last failed attempt or a successful one.
C3_BackoffBetweenAttempts ==
  (vsOp \in RetriedOps) =>
    /\ \A k \in 1..Len(waits) : waits[k] = retryDelay * (2 ^ (k - 1))
    /\ Len(waits) <= maxRetries - 1
    /\ (vsPc = "sleeping") => (Len(waits) = attempt /\ attempt < maxRetries)
    /\ (vsPc \in {"attempt", "done"} /\ attempt >= 1) => (Len(waits) = attempt - 1)
    /\ (attempt = 0) => (waits = <<>>)

C3_Witness ==
  /\ vsPc = "done"
  /\ vsOp = "searchSimilarDocuments"
  /\ maxRetries = 4
  /\ retryDelay = 7
  /\ vsResult.kind = "error"
  /\ waits = <<7, 14, 28>>

\* the documents of the batch that carry no embedding
DocsWithoutEmbedding == {k \in DOMAIN vsDocs : ~vsDocs[k].hasEmbedding}

\* C4: a non-empty batch with at least one document without an embedding makes
\* storeDocumentsBatch throw before any request: no upsert is sent, not even for
\* the valid documents or the sub-batches before the invalid one, and nothing is
\* retried.
C4_BatchPrecheckAllOrNothing ==
  (vsOp = "storeDocumentsBatch" /\ DocsWithoutEmbedding # {}) =>
    /\ vsPc = "done"
    /\ vsResult.kind = "error"
    /\ vsResult.message
         = ToString(Cardinality(DocsWithoutEmbedding)) \o " documents missing embeddings"
    /\ storeCalls = 0
    /\ upserts = <<>>
    /\ attempt = 0
    /\ waits = <<>>

C4_Witness ==
  /\ vsPc = "done"
  /\ vsOp = "storeDocumentsBatch"
  /\ vsBatchSize = 1
  /\ Len(vsDocs) = 3
  /\ DocsWithoutEmbedding = {3}
  /\ vsResult.kind = "error"
  /\ upserts = <<>>

\* C5: no point whose vector length differs from the collection's dimension
\* (vectorSize) is ever sent to the store, by any upsert path.
C5_NoWrongLengthVectorSent ==
  \A i \in DOMAIN upserts : \A j \in DOMAIN upserts[i] :
    Len(upserts[i][j].vector) = vectorSize

(***************************************************************************)
(* Claims on storeDocumentsBatch's retries, under SpecVector               *)
(***************************************************************************)
\* the requests made so far that the store carried out, in order
SucceededCalls ==
  [i \in 1..Len(upserts) |->
     CHOOSE c \in 1..storeCalls :
       c \notin failAt /\ Cardinality({d \in 1..c : d \notin failAt}) = i]
\* the last request before request c that the store rejected, 0 if none
LastFailureBefore(c) ==
  CHOOSE f \in {0} \cup failAt :
    f < c /\ \A g \in failAt : g < c => g <= f
\* sub-batch j of the batch
SubBatchNo(j) == SubBatchPoints(vsDocs, (j - 1) * vsBatchSize, vsBatchSize)
\* the points the store holds: an upsert replaces the point of the same id
IndexedPoints == UNION {{upserts[i][j] : j \in DOMAIN upserts[i]} : i \in DOMAIN upserts}
\* the points of the first n documents of the batch
PointsOfFirst(n) == {PointOf(vsDocs[k]) : k \in 1..Min(n, Len(vsDocs))}

\* C27: the sub-batch loop of storeDocumentsBatch is one retry unit. The first
\* request of the call and the request after each rejected one carry
\* sub-batch 1, every other request the sub-batch after the one before it: a
\* failure at sub-batch j sends 1..j-1 again. When the call returns, every
\* document was upserted at least once, its last requests were the
\* sub-batches 1..m in order, and the index holds what a failure-free run
\* leaves; when it throws, the index holds the points of a prefix of the
\* sub-batches.
C27_BatchIsOneRetryUnit ==
  (vsOp = "storeDocumentsBatch" /\ InRetry) =>
    /\ \A i \in DOMAIN upserts :
         upserts[i] = SubBatchNo(SucceededCalls[i] - LastFailureBefore(SucceededCalls[i]))
    /\ (vsPc = "done" /\ vsResult.kind = "ok") =>
         /\ Len(upserts) >= SubBatchCount
         /\ \A j \in 1..SubBatchCount :
              upserts[Len(upserts) - SubBatchCount + j] = SubBatchNo(j)
         /\ \A k \in DOMAIN vsDocs : PointOf(vsDocs[k]) \in IndexedPoints
         /\ IndexedPoints = PointsOfFirst(Len(vsDocs))
    /\ (vsPc = "done" /\ vsResult.kind = "error") =>
         /\ attempt = maxRetries
         /\ \E j \in 0..(SubBatchCount - 1) : IndexedPoints = PointsOfFirst(j * vsBatchSize)

\* a batch of three sub-batches whose second failed once: the first was sent
\* again and the call returned
C27_Witness ==
  /\ vsOp = "storeDocumentsBatch"
  /\ vsPc = "done"
  /\ vsResult.kind = "ok"
  /\ vsBatchSize = 1
  /\ Len(vsDocs) = 3
  /\ failAt = {2}
  /\ Len(upserts) = 4
  /\ upserts[1] = upserts[2]

\* retries exhausted with the first sub-batch in the index and the others not
C27_NotAtomic ==
  /\ vsOp = "storeDocumentsBatch"
  /\ vsPc = "done"
  /\ vsResult.kind = "error"
  /\ IndexedPoints # {}
  /\ IndexedPoints # PointsOfFirst(Len(vsDocs))

(***************************************************************************)
(* Claims on the operations outside executeWithRetry, under SpecVector     *)
(***************************************************************************)
\* the requests made so far that the store rejected
RejectedCalls == failAt \cap (1..storeCalls)

\* C29: storeDocument, updateDocument, deleteDocument and reindexAllDocuments
\* are outside the retry policy: each sends each of its requests once (one
\* upsert, one delete; deleteCollection, collectionExists, createCollection),
\* its first rejected request is its last and its error goes to the caller,
\* and it never waits for a backoff. When reindexAllDocuments fails after its
\* deleteCollection succeeded, the collection is absent.
C29_NoRetryOutsidePolicy ==
  (vsOp \in UnretriedOps) =>
    /\ attempt = 0
    /\ waits = <<>>
    /\ storeCalls <= (IF vsOp = "reindexAllDocuments" THEN 3 ELSE 1)
    /\ RejectedCalls \subseteq {storeCalls}
    /\ (vsPc = "done") =>
         /\ storeCalls >= 1
         /\ (RejectedCalls = {}) =>
              /\ vsResult.kind = "ok"
              /\ storeCalls = (IF vsOp = "reindexAllDocuments" THEN 3 ELSE 1)
         /\ (RejectedCalls # {}) => (vsResult = StoreError(storeCalls))
    /\ (RejectedCalls # {}) => (vsPc = "done")
    /\ (vsOp = "reindexAllDocuments" /\ vsPc = "done") =>
         (vsCollection <=> vsResult.kind = "ok" \/ storeCalls = 1)

\* reindexAllDocuments whose createCollection failed after the collection was
\* deleted
C29_Witness ==
  /\ vsOp = "reindexAllDocuments"
  /\ vsPc = "done"
  /\ storeCalls = 3
  /\ vsResult = StoreError(3)
  /\ ~vsCollection
  /\ waits = <<>>

(***************************************************************************)
(* Claims on generateAnswer, under SpecLLM                                 *)
(***************************************************************************)
\* C6: generateAnswer with an empty documents list returns the fixed
\* no-relevant-information message and sends nothing to the provider, whatever
\* the query and the options.
C6_EmptyDocumentsNoProviderCall ==
  (llmPc # "idle" /\ Len(llmDocs) = 0) =>
    /\ llmPc = "done"
    /\ llmResult = ReturnedAnswer(NoContextResponse)
    /\ llmRequests = <<>>

C6_Witness ==
  /\ llmPc = "done"
  /\ llmDocs = <<>>
  /\ llmQuery = "What are your business hours?"
  /\ llmOptions.maxTokens = 256
  /\ llmOptions.includeSourceInfo
  /\ llmResult.text = NoContextResponse
  /\ llmRequests = <<>>

\* C7: generateAnswer never throws: whatever the provider does (content, no
\* content, an error with or without a status) and whatever the documents, the
\* call ends by returning a string.
C7_NeverThrows ==
  /\ llmResult.kind # "threw"
  /\ (llmPc = "done") => (llmResult.kind = "returned" /\ Len(llmResult.text) > 0)

C7_Witness ==
  /\ llmPc = "done"
  /\ llmOutcome.kind = "error"
  /\ ~llmOutcome.error.hasStatus
  /\ llmResult.kind = "returned"

\* every character of s is whitespace (so is the empty string)
WhitespaceOnly(s) == \A k \in 1..Len(s) : IsWhitespace(CharAt(s, k))

\* t is c without its leading and trailing whitespace
IsTrimOf(t, c) ==
  \E i, j \in 0..Len(c) :
    /\ i + j <= Len(c)
    /\ t = SubSeq(c, i + 1, Len(c) - j)
    /\ WhitespaceOnly(SubSeq(c, 1, i))
    /\ WhitespaceOnly(SubSeq(c, Len(c) - j + 1, Len(c)))
    /\ (t = "") \/ (~IsWhitespace(CharAt(t, 1)) /\ ~IsWhitespace(CharAt(t, Len(t))))

ProviderGaveContent ==
  /\ llmOutcome.kind = "response"
  /\ llmOutcome.response.hasChoice
  /\ llmOutcome.response.hasContent

ProviderErrorStatus(st) ==
  /\ llmOutcome.kind = "error"
  /\ llmOutcome.error.hasStatus
  /\ llmOutcome.error.status = st

\* what the error outcomes map to, and the single provider call
C8_ErrorMapping ==
  /\ Len(llmRequests) = 1
  /\ ProviderErrorStatus(429) => (llmResult.text = HighDemandResponse)
  /\ ProviderErrorStatus(401) => (llmResult.text = AuthenticationResponse)
  /\ (llmOutcome.kind = "error" /\ ~ProviderErrorStatus(429) /\ ~ProviderErrorStatus(401))
       => (llmResult.text = FallbackResponse)
  /\ (llmOutcome.kind = "response" /\ ~ProviderGaveContent)
       => (llmResult.text = FallbackResponse)

\* C8 as stated: non-empty content gives that content trimmed, empty or missing
\* content the fallback message, 429 the high-demand message, 401 the
\* authentication message, any other error the fallback; one provider call.
C8_AsStated ==
  (llmPc = "done" /\ Len(llmDocs) > 0) =>
    /\ C8_ErrorMapping
    /\ (ProviderGaveContent /\ llmOutcome.response.content # "")
         => IsTrimOf(llmResult.text, llmOutcome.response.content)
    /\ (ProviderGaveContent /\ llmOutcome.response.content = "")
         => (llmResult.text = FallbackResponse)

\* C8, amended: content that is not whitespace-only gives that content trimmed;
\* empty, whitespace-only or missing content gives the fallback message; the
\* errors map as stated; the provider is called exactly once.
C8_OutcomeMapping ==
  (llmPc = "done" /\ Len(llmDocs) > 0) =>
    /\ C8_ErrorMapping
    /\ llmResult.kind = "returned"
    /\ (ProviderGaveContent /\ ~WhitespaceOnly(llmOutcome.response.content))
         => IsTrimOf(llmResult.text, llmOutcome.response.content)
    /\ (ProviderGaveContent /\ WhitespaceOnly(llmOutcome.response.content))
         => (llmResult.text = FallbackResponse)

C8_Witness ==
  /\ llmPc = "done"
  /\ Len(llmDocs) = 2
  /\ ProviderGaveContent
  /\ llmOutcome.response.content = "\n\t "
  /\ llmResult.text = FallbackResponse
  /\ Len(llmRequests) = 1

(***************************************************************************)
(* Claims on buildContext, under SpecContext                               *)
(***************************************************************************)
\* C9: the string buildContext returns is never longer than the window size
\* (so within the window plus any fixed buffer), also when its last document is
\* a truncated one ending in '...'.
C9_ContextWithinWindow ==
  (ctxPc = "done") => (Len(ctxResult) <= contextWindowSize)

C9_Witness ==
  /\ ctxPc = "done"
  /\ contextWindowSize = 330
  /\ Len(ctxDocs) = 2
  /\ Len(ctxResult) > 200
  /\ SubSeq(ctxResult, Len(ctxResult) - 2, Len(ctxResult)) = "..."

\* C10: for a non-empty documents list buildContext returns a non-empty string.
C10_NonEmptyContext ==
  (ctxPc = "done" /\ Len(ctxDocs) > 0) => (ctxResult # "")

(***************************************************************************)
(* Claims on buildContext's packing, under SpecContext                     *)
(***************************************************************************)
RECURSIVE WholeTexts(_, _)
\* the blocks of the first n documents of sorted, one after the other
WholeTexts(sorted, n) ==
  IF n = 0 THEN "" ELSE WholeTexts(sorted, n - 1) \o DocText(sorted[n])

\* how many leading documents of sorted fit in full within windowSize
FittingCount(sorted, windowSize) ==
  CHOOSE n \in 0..Len(sorted) :
    /\ Len(WholeTexts(sorted, n)) <= windowSize
    /\ (n = Len(sorted) \/ Len(WholeTexts(sorted, n + 1)) > windowSize)

\* the truncated block of the first document that does not fit, if it is due
TruncatedText(sorted, n, windowSize) ==
  IF n = Len(sorted) THEN ""
  ELSE LET doc == sorted[n + 1]
           space == windowSize - Len(WholeTexts(sorted, n)) - Len(DocHeader(doc)) - 50
       IN IF space > 100
            THEN DocHeader(doc) \o SubSeq(doc.content, 1, Min(space, Len(doc.content)))
                   \o "...\n\n"
            ELSE ""

\* C21: buildContext packs greedily in descending score order and stops at the
\* first overflow: the context is made of the blocks of a prefix of the
\* score-sorted list (cut to maxDocuments), each in full, followed at most by a
\* truncated block of the first document that did not fit, present only if
\* windowSize - currentLength - headerLength - 50 > 100; nothing of any later
\* document follows, even if it would fit.
C21_GreedyPrefix ==
  (ctxPc = "done") =>
    LET sorted == SortedDocuments(ctxDocs, maxDocuments)
        n == FittingCount(sorted, contextWindowSize)
    IN /\ Len(sorted) = Min(maxDocuments, Len(ctxDocs))
       /\ \A i \in 1..Len(sorted) : \A j \in i..Len(sorted) :
            sorted[i].score >= sorted[j].score
       /\ \A d \in {sorted[i] : i \in 1..Len(sorted)} :
            \A e \in {ctxDocs[i] : i \in 1..Len(ctxDocs)} \ {sorted[i] : i \in 1..Len(sorted)} :
              d.score >= e.score
       /\ ctxResult =
            Trim(WholeTexts(sorted, n) \o TruncatedText(sorted, n, contextWindowSize))

\* the best document is cut short and a lower-scored one that would fit in full
\* is left out
C21_Witness ==
  /\ ctxPc = "done"
  /\ Len(ctxDocs) >= 2
  /\ maxDocuments >= 2
  /\ LET sorted == SortedDocuments(ctxDocs, maxDocuments)
     IN /\ Len(DocText(sorted[1])) > contextWindowSize
        /\ Len(DocText(sorted[2])) <= contextWindowSize
        /\ sorted[2].score < sorted[1].score
        /\ Len(sorted[2].content) > 0
        /\ ctxResult = Trim(TruncatedText(sorted, 0, contextWindowSize))
        /\ Len(ctxResult) > 100

(***************************************************************************)
(* Claims on optimizeContextForTokenLimit, under SpecTokens                *)
(***************************************************************************)
RECURSIVE SumTokens(_)
\* the sum of estimateTokens(content) over documents
SumTokens(documents) ==
  IF documents = <<>> THEN 0
  ELSE EstimateTokens(Head(documents).content) + SumTokens(Tail(documents))

\* C11: the documents returned by optimizeContextForTokenLimit, the truncated
\* last one with its "..." included, have at most maxTokens estimated tokens.
C11_WithinTokenBudget ==
  (optPc = "done") => (SumTokens(optResult) <= optMaxTokens)

(***************************************************************************)
(* Claims on RagService, under SpecRag                                     *)
(***************************************************************************)
\* the pending row of the call was created
RecordCreated == Len(queryLogs) >= 1
\* the row of the call
CurrentRow == queryLogs[Len(queryLogs)]
\* the updates the repository carried out and those it rejected
AppliedUpdates == SelectSeq(logUpdateCalls, LAMBDA c : c.ok)
RejectedUpdates == SelectSeq(logUpdateCalls, LAMBDA c : ~c.ok)
\* embedding or search failed
StageFailed == ragCaught.from \in {"embedding", "search"}
\* embedding, search and answering succeeded
StagesSucceeded == ragAnswer # ""

\* the row was updated once, with what the outcome of the stages calls for
UpdatedOnceAsCalledFor ==
  /\ Len(AppliedUpdates) = 1
  /\ StagesSucceeded =>
       /\ AppliedUpdates[1].updates.kind = "result"
       /\ CurrentRow.response = ragAnswer
       /\ CurrentRow.documentsRetrieved = Len(ragDocs)
       /\ CurrentRow.responseTime = AppliedUpdates[1].updates.responseTime
       /\ CurrentRow.errorMessage = ""
  /\ StageFailed =>
       /\ AppliedUpdates[1].updates.kind = "error"
       /\ CurrentRow.errorMessage = ragCaught.message
       /\ CurrentRow.responseTime = AppliedUpdates[1].updates.responseTime
       /\ CurrentRow.response = ""

C13_LoggingFailureMasksNothing ==
  (ragPc = "done" /\ Len(RejectedUpdates) > 0) =>
    /\ StageFailed => ragResult = RagThrown(ragCaught.message)
    /\ StagesSucceeded => (ragResult.kind = "returned" /\ ragResult.answer = ragAnswer)

\* C14: when the search failed after its retries, the error is in the query
\* log and the caller gets an answer, not the raw error.
C14_GenericAnswerOnSearchFailure ==
  (ragPc = "done" /\ ragCaught.from = "search" /\ Len(RejectedUpdates) = 0) =>
    /\ CurrentRow.errorMessage = SearchError
    /\ ragResult.kind = "returned"
    /\ ragResult.answer # SearchError

\* C19: the row of a query that came in through processVoiceQuery has type
\* voice, the row of one that came in through processTextQuery type text.
C19_LoggedTypeIsEntryType ==
  RecordCreated =>
    (CurrentRow.queryType = IF ragEntry = "voice" THEN QueryTypeVoice ELSE QueryTypeText)

\* the row of the call is there and still pending
PendingRecord ==
  /\ Len(queryLogs) = 1
  /\ queryLogs[1].response = ""
  /\ queryLogs[1].errorMessage = ""
  /\ Len(logUpdateCalls) = 0

\* one step of a processTextQuery call, from the await it was at to the next
StageStep ==
  /\ ragPc # "done"
  /\ (ragPc' = "logging") => (ragPc = "idle")
  /\ (ragPc' = "embedding") => (ragPc = "logging" /\ PendingRecord')
  /\ (ragPc' = "searching") =>
       (ragPc = "embedding" /\ PendingRecord' /\ ragCaught' = NoError)
  /\ (ragPc' = "updating") =>
       (ragPc = "searching" /\ PendingRecord' /\ ragCaught' = NoError /\ ragAnswer' # "")
  /\ (ragPc' = "catching") =>
       /\ ragPc \in {"embedding", "searching", "updating"}
       /\ ragCaught'.from = (CASE ragPc = "embedding" -> "embedding"
                                [] ragPc = "searching" -> "search"
                                [] ragPc = "updating" -> "update")
       /\ UNCHANGED <<ragDocs, ragAnswer>>
  /\ (ragPc' = "done") =>
       \/ ragPc = "logging" /\ Len(queryLogs') = 0 /\ ragResult'.kind = "threw"
       \/ /\ ragPc = "updating"
          /\ logUpdateCalls'[Len(logUpdateCalls')].ok
          /\ ragResult'.kind = "returned"
       \/ /\ ragPc = "catching"
          /\ logUpdateCalls'[Len(logUpdateCalls')].updates.kind = "error"
          /\ ragResult'.kind = "threw"

\* C22: every step of a processTextQuery call goes from one stage to the next
\* of RECEIVED, EMBEDDING, SEARCHING, ANSWERING, LOGGED: the pending row is
\* created before the embedding is awaited, the search is awaited only after
\* the embedding resolved, the answer is made only after the search resolved,
\* a stage that failed is followed by the error update of the log and by
\* nothing else, and nothing follows the update of the log that ends the call.
C22_StagesInOrder == [][StageStep]_vars

\* a call whose search failed after the embedding resolved: the error update
\* is its only later call
C22_Witness ==
  /\ ragPc = "done"
  /\ ragEntry = "text"
  /\ ragCaught.from = "search"
  /\ ragDocs = <<>>
  /\ ragAnswer = ""
  /\ Len(logUpdateCalls) = 1
  /\ logUpdateCalls[1].updates.kind = "error"
  /\ ragResult.kind = "threw"

\* C26: the row of a query that failed at embedding or search marks the
\* failure: errorMessage is set, response is unset and status is error; the row
\* of a query that succeeded has status success, a response and no
\* errorMessage. (The calls during which the repository rejected no update.)
C26_FailureMarkedInRecord ==
  (ragPc = "done" /\ RecordCreated /\ Len(RejectedUpdates) = 0) =>
    /\ StageFailed =>
         /\ CurrentRow.errorMessage # ""
         /\ CurrentRow.response = ""
         /\ CurrentRow.status = "error"
    /\ (ragResult.kind = "returned") =>
         /\ CurrentRow.status = "success"
         /\ CurrentRow.response # ""
         /\ CurrentRow.errorMessage = ""

(***************************************************************************)
(* Claims on TextChunkingService, under SpecChunk                          *)
(***************************************************************************)
\* C15: the k chunks that a chunkText call returns, whatever the strategy, all
\* have totalChunks = k, have the chunkIndex values 0, 1, ..., k-1 in emission
\* order (also when fixed-size windows were skipped), and each has the id
\* <documentId>_chunk_<chunkIndex>.
C15_ChunkNumbering ==
  (chkPc = "done" /\ chkResult.kind = "returned") =>
    \A j \in 1..Len(chkResult.chunks) :
      /\ chkResult.chunks[j].metadata.totalChunks = Len(chkResult.chunks)
      /\ chkResult.chunks[j].metadata.chunkIndex = j - 1
      /\ chkResult.chunks[j].id = chkDocumentId \o "_chunk_" \o ToString(j - 1)

\* a fixed-size call that skipped a window and returned several chunks
C15_Witness ==
  /\ chkPc = "done"
  /\ chkResult.kind = "returned"
  /\ chkOptions.strategy = FixedSize
  /\ Len(chkResult.chunks) >= 2
  /\ \E j \in 1..Len(chkResult.chunks) :
       chkResult.chunks[j].metadata.startPosition
         > (j - 1) * (chkOptions.maxChunkSize - chkOptions.overlapSize)

\* C23: fixedSizeChunking ends for every text and every pair (maxChunkSize,
\* overlapSize): a call that entered its loop returns or throws, also when
\* overlapSize >= maxChunkSize, where it ends with an error.
C23_FixedSizeTerminates == (chkPc = "fixed") ~> (chkPc = "done")

\* a fixed-size call with 0 <= overlapSize < maxChunkSize has returned
FixedSizeReturned ==
  /\ chkPc = "done"
  /\ chkResult.kind = "returned"
  /\ chkOptions.strategy = FixedSize
  /\ chkOptions.overlapSize >= 0
  /\ chkOptions.overlapSize < chkOptions.maxChunkSize

\* the windows of the text: window j starts at j * step
WindowStart(j) == j * (chkOptions.maxChunkSize - chkOptions.overlapSize)
WindowEnd(j) == Min(WindowStart(j) + chkOptions.maxChunkSize, Len(chkText))
Windows == {j \in 0..Len(chkText) : WindowStart(j) < Len(chkText)}
\* window j holds something else than whitespace
WindowHasText(j) ==
  \E p \in (WindowStart(j) + 1)..WindowEnd(j) : ~IsWhitespace(CharAt(chkText, p))
\* the range [startPosition, endPosition) of a chunk, as text indices from 0
RangeOf(chunk) == chunk.metadata.startPosition..(chunk.metadata.endPosition - 1)

\* C24: for fixed_size chunking with 0 <= overlapSize < maxChunkSize, every
\* emitted chunk has the range [j*step, min(j*step + maxChunkSize, len)) of a
\* window j, of length at most maxChunkSize; every text index that lies in a
\* window that is not whitespace-only lies in the range of an emitted chunk;
\* with overlapSize = 0 the ranges are pairwise disjoint.
C24_FixedSizeWindows ==
  FixedSizeReturned =>
    LET chunks == chkResult.chunks
    IN /\ \A k \in 1..Len(chunks) :
            /\ \E j \in Windows :
                 /\ chunks[k].metadata.startPosition = WindowStart(j)
                 /\ chunks[k].metadata.endPosition = WindowEnd(j)
            /\ chunks[k].metadata.endPosition - chunks[k].metadata.startPosition
                 <= chkOptions.maxChunkSize
            /\ chunks[k].content =
                 Trim(SubSeq(chkText, chunks[k].metadata.startPosition + 1,
                             chunks[k].metadata.endPosition))
       /\ \A j \in Windows : WindowHasText(j) =>
            \A p \in WindowStart(j)..(WindowEnd(j) - 1) :
              \E k \in 1..Len(chunks) : p \in RangeOf(chunks[k])
       /\ (chkOptions.overlapSize = 0) =>
            \A k \in 1..Len(chunks) : \A l \in (k + 1)..Len(chunks) :
              RangeOf(chunks[k]) \cap RangeOf(chunks[l]) = {}

\* a call without overlap that skipped a blank window, emitted a window with
\* whitespace at its end, and ended on a short last window
C24_Witness ==
  /\ FixedSizeReturned
  /\ chkOptions.overlapSize = 0
  /\ Len(chkResult.chunks) >= 2
  /\ \E j \in Windows : ~WindowHasText(j)
  /\ \E k \in 1..Len(chkResult.chunks) :
       Len(chkResult.chunks[k].content)
         < chkResult.chunks[k].metadata.endPosition - chkResult.chunks[k].metadata.startPosition
  /\ chkResult.chunks[Len(chkResult.chunks)].metadata.endPosition = Len(chkText)
  /\ Len(chkText) % chkOptions.maxChunkSize # 0

\* what the same call returns when sentence_boundary is requested
AsSentenceBoundary ==
  SentenceBoundaryChunking(chkText, [chkOptions EXCEPT !.strategy = SentenceBoundary],
                           chkDocumentId, SourceFile)

\* C25: a call that requested semantic returns as many chunks as the same call
\* requesting sentence_boundary, with the same contents, indices, ids,
\* positions and counts; the chunks differ in the strategy tag only, semantic
\* in the one and sentence_boundary in the other.
C25_SemanticIsSentenceBoundary ==
  (chkPc = "done" /\ chkOptions.strategy = Semantic) =>
    /\ chkResult.kind = "returned"
    /\ Len(chkResult.chunks) = Len(AsSentenceBoundary)
    /\ \A k \in 1..Len(chkResult.chunks) :
         /\ chkResult.chunks[k].metadata.chunkingStrategy = Semantic
         /\ AsSentenceBoundary[k].metadata.chunkingStrategy = SentenceBoundary
         /\ [chkResult.chunks[k] EXCEPT !.metadata.chunkingStrategy = SentenceBoundary]
              = AsSentenceBoundary[k]

\* a semantic call that returned several chunks
C25_Witness ==
  /\ chkPc = "done"
  /\ chkOptions.strategy = Semantic
  /\ chkResult.kind = "returned"
  /\ Len(chkResult.chunks) >= 2
  /\ chkResult.chunks[2].metadata.startPosition > 0

(***************************************************************************)
(* Claims on TextPreprocessingService, under SpecPrep                      *)
(***************************************************************************)
\* C16: preprocess is idempotent: preprocess(preprocess(x)) = preprocess(x)
\* for every text x.
C16_PreprocessIdempotent ==
  (Len(prepPasses) = 2) => (prepPasses[2] = prepPasses[1])

(***************************************************************************)
(* Claims on EmbeddingService, under SpecEmb                               *)
(***************************************************************************)
\* the texts that are not blank, in their order
NonBlankTexts(texts) == SelectSeq(texts, LAMBDA text : ~WhitespaceOnly(text) /\ text # "")

\* C17: a returned result holds one vector for each non-blank text, the k-th
\* being the provider's embedding of the k-th non-blank text, however many
\* sub-batches there were; an empty list returns [] and a non-empty list of
\* blank texts throws, both without a request to the provider.
C17_EmbeddingsInInputOrder ==
  /\ (embPc = "done" /\ embResult.kind = "returned") =>
       /\ Len(embResult.value) = Len(NonBlankTexts(embTexts))
       /\ \A k \in 1..Len(embResult.value) :
            embResult.value[k] = ProviderEmbedding(NonBlankTexts(embTexts)[k])
  /\ (embPc # "idle" /\ Len(embTexts) = 0) =>
       (embResult = EmbeddingsReturned(<<>>) /\ embRequests = <<>>)
  /\ (embPc # "idle" /\ Len(embTexts) > 0 /\ Len(NonBlankTexts(embTexts)) = 0) =>
       (embResult.kind = "threw" /\ embRequests = <<>>)

\* more than one sub-batch, blank texts among the input, a returned result
C17_Witness ==
  /\ embPc = "done"
  /\ embResult.kind = "returned"
  /\ Len(embRequests) >= 2
  /\ Len(NonBlankTexts(embTexts)) > EmbeddingBatchSize
  /\ Len(NonBlankTexts(embTexts)) < Len(embTexts)

(***************************************************************************)
(* Claims on uploadDocumentsBatch, under SpecUpload                        *)
(***************************************************************************)
\* C28: uploadDocumentsBatch gives storeDocumentsBatch, and stores, every
\* document with the embedding of its own content: for every list, also one
\* with blank contents, no document carries the embedding of another and none
\* is passed on without an embedding.
C28_OwnEmbeddingStored ==
  /\ \A k \in DOMAIN upVectorDocs :
       /\ upVectorDocs[k].hasEmbedding
       /\ upVectorDocs[k].embedding = ProviderEmbedding(upDocs[k].content)
  /\ \A p \in upPoints :
       \E k \in DOMAIN upDocs :
         p.id = upDocs[k].id /\ p.vector = ProviderEmbedding(upDocs[k].content)

(***************************************************************************)
(* Claims on AdminService and DocumentsController, under SpecAdmin         *)
(***************************************************************************)
\* the operation named has just reported success
Succeeded(names) ==
  admPc = "done" /\ admOp.name \in names /\ admResult.kind = "returned"

\* C18: after reindexVectorDatabase({fullReindex: true}) has reported success,
\* every document of the document store has its point in the collection.
C18_FullReindexRebuilds ==
  (Succeeded({"reindexVectorDatabase"}) /\ admOp.dto.fullReindex) =>
    (\A id \in documentStore : id \in points)

\* C20: after AdminService.deleteDocument or DocumentsController.remove has
\* completed successfully for a document, the collection holds no point with
\* that document's id.
C20_DeletedNotIndexed ==
  Succeeded({"deleteDocument", "documentsRemove"}) => (admOp.id \notin points)

(***************************************************************************)
(* Claims on concurrent admin operations, under SpecTasks                  *)
(***************************************************************************)
\* every call that was made has returned or thrown
AllFinished == \A task \in Tasks : taskPc[task] \in {"idle", "done"}

\* C30: under any interleaving of uploadTextDocument, deleteDocument and
\* reindexVectorDatabase({documentIds}) on the same id, once all have
\* finished the index holds a point only for a document the store holds; a
\* reindex that read the document before a concurrent delete does not put the
\* point back after the delete.
C30_IndexWithinStore ==
  AllFinished => (points \subseteq documentStore)

====
